---- MODULE Spec2Model ----
(***************************************************************************)
(* State-machine model of src/src/lib/risco-mqtt-local.ts: the bridge      *)
(* between a Risco panel (device link) and an MQTT broker (bus link).      *)
(*                                                                         *)
(* The closure variables of riscoMqttHomeAssistant() are the VARIABLES.    *)
(* Every function of the source is an operator from a state record to a    *)
(* state record, so that a handler is the composition of the calls it      *)
(* makes, in the order of the code; an action applies one handler to the   *)
(* current state (Cur) and stores the result (Commit).                     *)
(*                                                                         *)
(* The effects a handler has on its collaborators (mqttClient.publish,     *)
(* mqttClient.subscribe, emitter.on, panel.armHome, ...) are recorded, in  *)
(* call order, in `out`: the effects of the most recent handler.  An       *)
(* effect is a tuple <<kind, name, id, value>>.                            *)
(***************************************************************************)
EXTENDS Integers, Sequences, FiniteSets, TLC

(***************************************************************************)
(* Bounds of the model (not program constants).                            *)
(***************************************************************************)
NumPartitions == 2      \* partitions reported by the panel, ids 1..NumPartitions
NumZones == 1           \* zones reported by the panel
NumOutputs == 1         \* outputs reported by the panel
TickMs == 30000         \* granularity of the passage of time
MaxListeners == 5       \* cap on listeners stacked on tcpSocket 'Disconnected'
MaxTimers == 2          \* cap on arming timers alive at the same time
MaxPending == 1         \* cap on armAway calls whose result is still awaited
MaxCalls == 2           \* cap on the counted device calls of one request

Partitions == 1..NumPartitions
Zones == 1..NumZones
Outputs == 1..NumOutputs

(***************************************************************************)
(* Program constants.                                                      *)
(***************************************************************************)
ArmingTimeoutMs == 30000        \* setTimeout(..., 30000) in partitionListener
ReconnectDelayDirect == 30000   \* publishOnline, socketMode /= 'proxy'
ReconnectDelayProxy == 60000    \* publishOnline, socketMode = 'proxy'
RepublishingDelay == 30000      \* republishing_delay: ha_state_publishing_delay * 1000

NoTimer == -1                   \* a timer handle that is unset, cleared or fired
NoPartition == 0                \* partitionDetailId before the first request

VARIABLES
    panelReady, mqttReady, listenerInstalled, socketListeners, initialized,
    reconnecting, awaitPartitionReady, partitionDetailId, partitionDetailType,
    partitionReadyStatus, armingTimer,
    loop,                   \* heartbeat timer: ms left, or NoTimer
    partitionwait,          \* live arming timers, oldest first: [Id, remaining]
    alarmMapping,           \* one record per push of publishHomeAssistantDiscoveryInfo
    partitions,             \* panel.partitions: the device's flags per partition
    disconnectedListeners,  \* listeners on tcpSocket 'Disconnected', in order
    pendingAway,            \* device calls the panel is going to reject, not yet settled
    socketMode,             \* config.panel.socketMode
    arming_modes,           \* config.arming_modes.partition.default, as merged
    zones,                  \* panel.zones: the device's flags per zone
    outputs,                \* panel.outputs: the device's state per output
    orphanLoops,            \* heartbeat timers alive but no longer held by `loop`
    republishTimers,        \* live timers `t` of the Home Assistant status branch: ms left
    out,                    \* effects of the most recent handler
    reqCode,                \* history: the command that made the outstanding request
    reqCalls,               \* history: device arm calls for its partition since then
    reqAge,                 \* history: ms since that command (saturating)
    onlineAge,              \* history: ms since the 'online' that set the live `loop`
    bothUpSeen,             \* history: both links have been up at the same time
    stale                   \* history: partitions whose retry timed out after 'arming'
                            \* was published, with no event or alarm-state publish since

vars == <<panelReady, mqttReady, listenerInstalled, socketListeners, initialized,
          reconnecting, awaitPartitionReady, partitionDetailId, partitionDetailType,
          partitionReadyStatus, armingTimer, loop, partitionwait, alarmMapping,
          partitions, disconnectedListeners, pendingAway, socketMode,
          arming_modes, zones, outputs, orphanLoops, republishTimers, out,
          reqCode, reqCalls, reqAge, onlineAge, bothUpSeen, stale>>

(***************************************************************************)
(* The state as a record, and back.  `command` is the inbound command the  *)
(* running handler was started for ("none" in every other handler) and     *)
(* `awaited` tells whether the handler awaits its device call inside a     *)
(* try block.  The                                                         *)
(* history variables describe the outstanding request, and the live        *)
(* heartbeat timer, and are blank while there is none.                     *)
(***************************************************************************)
Cur ==
    [panelReady |-> panelReady, mqttReady |-> mqttReady,
     listenerInstalled |-> listenerInstalled, socketListeners |-> socketListeners,
     initialized |-> initialized, reconnecting |-> reconnecting,
     awaitPartitionReady |-> awaitPartitionReady,
     partitionDetailId |-> partitionDetailId,
     partitionDetailType |-> partitionDetailType,
     partitionReadyStatus |-> partitionReadyStatus, armingTimer |-> armingTimer,
     loop |-> loop, partitionwait |-> partitionwait, alarmMapping |-> alarmMapping,
     partitions |-> partitions, disconnectedListeners |-> disconnectedListeners,
     pendingAway |-> pendingAway, socketMode |-> socketMode,
     arming_modes |-> arming_modes, zones |-> zones, outputs |-> outputs,
     orphanLoops |-> orphanLoops, republishTimers |-> republishTimers, out |-> <<>>,
     reqCode |-> reqCode, reqCalls |-> reqCalls, reqAge |-> reqAge,
     onlineAge |-> onlineAge, stale |-> stale,
     command |-> "none", awaited |-> FALSE]

Commit(s) ==
    /\ panelReady' = s.panelReady
    /\ mqttReady' = s.mqttReady
    /\ listenerInstalled' = s.listenerInstalled
    /\ socketListeners' = s.socketListeners
    /\ initialized' = s.initialized
    /\ reconnecting' = s.reconnecting
    /\ awaitPartitionReady' = s.awaitPartitionReady
    /\ partitionDetailId' = s.partitionDetailId
    /\ partitionDetailType' = s.partitionDetailType
    /\ partitionReadyStatus' = s.partitionReadyStatus
    /\ armingTimer' = s.armingTimer
    /\ loop' = s.loop
    /\ partitionwait' = s.partitionwait
    /\ alarmMapping' = s.alarmMapping
    /\ partitions' = s.partitions
    /\ disconnectedListeners' = s.disconnectedListeners
    /\ pendingAway' = s.pendingAway
    /\ socketMode' = s.socketMode
    /\ arming_modes' = s.arming_modes
    /\ zones' = s.zones
    /\ outputs' = s.outputs
    /\ orphanLoops' = s.orphanLoops
    /\ republishTimers' = s.republishTimers
    /\ out' = s.out
    /\ reqCode' = IF s.awaitPartitionReady THEN s.reqCode ELSE "none"
    /\ reqCalls' = IF s.awaitPartitionReady THEN s.reqCalls ELSE 0
    /\ reqAge' = IF s.awaitPartitionReady THEN s.reqAge ELSE 0
    /\ onlineAge' = IF s.loop /= NoTimer THEN s.onlineAge ELSE 0
    /\ bothUpSeen' = (bothUpSeen \/ (s.panelReady /\ s.mqttReady))
    /\ stale' = {p \in s.stale :
                     \A i \in 1..Len(s.out) :
                         ~(/\ s.out[i][1] = "publish"
                           /\ s.out[i][2] = "alarm/partition/status"
                           /\ s.out[i][3] = p)}

Emit(s, kind, name, id, value) ==
    [s EXCEPT !.out = Append(@, <<kind, name, id, value>>)]

\* mqttClient.publish(topic, payload, ...): the topic is <name> of entity <id>
Publish(s, name, id, payload) == Emit(s, "publish", name, id, payload)

\* mqttClient.subscribe(topic)
Subscribe(s, name, id) == Emit(s, "subscribe", name, id, "")

\* emitter.on(event, listener)
On(s, event) == Emit(s, "on", event, 0, "")

\* a JS for...of loop over seq whose body is Op(state, element)
ForEach(Op(_, _), s, seq) ==
    LET it[i \in 0..Len(seq)] == IF i = 0 THEN s ELSE Op(it[i - 1], seq[i])
    IN  it[Len(seq)]

\* Array.prototype.push, keeping only the indices the program can read
PushUpTo(arr, x, cap) == IF Len(arr) < cap THEN Append(arr, x) ELSE arr

(***************************************************************************)
(* Configuration (CONFIG_DEFAULTS) and the entities the panel reports.     *)
(***************************************************************************)
filter_bypass_zones == TRUE

ArmingKeys ==
    <<"armed_away", "armed_home", "armed_night", "armed_vacation", "armed_custom_bypass">>

ArmingModesDefault ==
    [armed_away |-> "armed_away", armed_home |-> "armed_home",
     armed_night |-> "armed_home", armed_vacation |-> "armed_away",
     armed_custom_bypass |-> "armed_home"]

\* the arming-mode mappings the configuration is drawn from: the default, the
\* README's example, one that maps three keys to groups, one that maps two
\* keys to the same native state and none to 'armed_away'
ArmingModeChoices ==
    {ArmingModesDefault,
     [ArmingModesDefault EXCEPT !.armed_custom_bypass = "armed_group_A"],
     [ArmingModesDefault EXCEPT !.armed_night = "armed_group_B",
                                !.armed_vacation = "armed_group_C",
                                !.armed_custom_bypass = "armed_group_D"],
     [ArmingModesDefault EXCEPT !.armed_away = "armed_home",
                                !.armed_vacation = "armed_group_A"]}

PartitionLabel(p) == <<"Partition", p>>

\* static entity data of the panel: zone z is wireless and entry/exit (type 3)
\* when z is odd; output o is pulsed when o is even
ZoneNotUsed(z) == FALSE
ZoneType(z) == IF z % 2 = 1 THEN 3 ELSE 1
ZoneTech(z) == IF z % 2 = 1 THEN "W" ELSE "E"
OutputUserUsable(o) == TRUE
OutputPulsed(o) == o % 2 = 0
OutputHasLabel(o) == TRUE

Ids(n) == [i \in 1..n |-> i]

activePartitions(s) == SelectSeq(Ids(NumPartitions), LAMBDA p : s.partitions[p].Exist)
activeZones == SelectSeq(Ids(NumZones), LAMBDA z : ~ZoneNotUsed(z))
activeBypassZones ==
    IF filter_bypass_zones = TRUE
    THEN SelectSeq(Ids(NumZones), LAMBDA z : ZoneType(z) /= 3 /\ ~ZoneNotUsed(z))
    ELSE SelectSeq(Ids(NumZones), LAMBDA z : ~ZoneNotUsed(z))
batteryZones == SelectSeq(Ids(NumZones), LAMBDA z : ZoneTech(z) = "W")
activeToggleOutputs ==
    SelectSeq(Ids(NumOutputs), LAMBDA o : OutputUserUsable(o) /\ ~OutputPulsed(o))
activeButtonOutputs ==
    SelectSeq(Ids(NumOutputs), LAMBDA o : OutputUserUsable(o) /\ OutputPulsed(o))
activeSystemOutputs ==
    SelectSeq(Ids(NumOutputs), LAMBDA o : ~OutputUserUsable(o) /\ OutputHasLabel(o))

(***************************************************************************)
(* Link-health and heartbeat publications.                                 *)
(***************************************************************************)
panelStatus(state) == IF state THEN "1" ELSE "0"

publishState(s, state) ==
    IF s.socketMode = "proxy"
    THEN Publish(s, "alarm/proxystatus", 0, panelStatus(state))
    ELSE Publish(s, "alarm/panelstatus", 0, panelStatus(state))

\* both autoConnect branches publish the same thing when !state && initialized
publishPanelStatus(s, state) ==
    IF state THEN publishState(s, state)
    ELSE IF s.initialized THEN publishState(s, state)
    ELSE s

\* publishOffline without the test of mqttReady
publishOffline_always(s) == Publish(s, "alarm/status", 0, "offline")

publishOffline(s) ==
    IF s.mqttReady THEN Publish(s, "alarm/status", 0, "offline") ELSE s

reconnectDelay(s) ==
    IF s.socketMode = "proxy" THEN ReconnectDelayProxy ELSE ReconnectDelayDirect

\* clearTimeout(loop): the timer `loop` holds is cancelled
clearTimeoutLoop(s) == [s EXCEPT !.loop = NoTimer]

\* loop = setTimeout(..., ms): a new timer; one that `loop` still held alive
\* stays alive, with no handle left to cancel it
setTimeoutLoop(s, ms) ==
    [s EXCEPT !.loop = ms, !.onlineAge = 0,
              !.orphanLoops = IF s.loop /= NoTimer
                              THEN PushUpTo(@, s.loop, MaxTimers) ELSE @]

\* publishOnline without clearTimeout(loop)
publishOnline_noClear(s) ==
    LET s1 == [s EXCEPT !.reconnecting = FALSE]
        s2 == Publish(s1, "alarm/status", 0, "online")
        s3 == Publish(s2, "alarm/button_status", 0, "online")
    IN  IF ~s3.reconnecting THEN setTimeoutLoop(s3, reconnectDelay(s3)) ELSE s3

publishOnline(s) ==
    LET s1 == [clearTimeoutLoop(s) EXCEPT !.reconnecting = FALSE]
        s2 == Publish(s1, "alarm/status", 0, "online")
        s3 == Publish(s2, "alarm/button_status", 0, "online")
    IN  IF ~s3.reconnecting THEN setTimeoutLoop(s3, reconnectDelay(s3)) ELSE s3

(***************************************************************************)
(* Discovery.                                                              *)
(***************************************************************************)
discoverPartition(s, p) ==
    LET s1 == [s EXCEPT
                 !.partitionReadyStatus = PushUpTo(@, "object", NumPartitions + 1),
                 !.alarmMapping =
                     PushUpTo(@, [label |-> PartitionLabel(p),
                                  modes |-> s.arming_modes], NumPartitions)]
        s2 == Publish(s1, "discovery/alarm_control_panel", p, "config")
    IN  Publish(s2, "discovery/partition-status", p, "config")

discoverZone(s, z) ==
    Publish(Publish(s, "discovery/zone", z, "config"), "discovery/zone-alarm", z, "config")

publishHomeAssistantDiscoveryInfo(s) ==
    LET s1 == IF s.socketMode = "proxy"
              THEN Publish(s, "discovery/proxystatus", 0, "config")
              ELSE Publish(s, "discovery/panelstatus", 0, "config")
        s2 == Publish(s1, "discovery/systemmessage", 0, "config")
        s3 == Publish(s2, "discovery/systembattery", 0, "config")
        s4 == Publish(s3, "discovery/repubish_state", 0, "config")
        s5 == Publish(s4, "discovery/repubish_autodiscovery", 0, "config")
        s6 == Publish(s5, "discovery/restart_communications", 0, "config")
        s7 == ForEach(discoverPartition, s6, activePartitions(s6))
        s8 == ForEach(LAMBDA t, o : Publish(t, "discovery/switch-output", o, "config"),
                      s7, activeToggleOutputs)
        s9 == ForEach(LAMBDA t, o : Publish(t, "discovery/button-output", o, "config"),
                      s8, activeButtonOutputs)
        s10 == ForEach(LAMBDA t, o : Publish(t, "discovery/system-output", o, "config"),
                       s9, activeSystemOutputs)
        s11 == ForEach(discoverZone, s10, activeZones)
        s12 == ForEach(LAMBDA t, z : Publish(t, "discovery/zone-bypass", z, "config"),
                       s11, activeBypassZones)
    IN  ForEach(LAMBDA t, z : Publish(t, "discovery/zone-battery", z, "config"),
                s12, batteryZones)

(***************************************************************************)
(* The connection-readiness gate.                                          *)
(***************************************************************************)
installListeners(s) ==
    LET s1 == ForEach(LAMBDA t, p : Subscribe(t, "alarm/partition/set", p),
                      s, activePartitions(s))
        s2 == ForEach(LAMBDA t, z : Subscribe(t, "alarm/zone-bypass/set", z),
                      s1, activeZones)
        s3 == ForEach(LAMBDA t, o : Subscribe(t, "alarm/output/trigger", o),
                      s2, activeToggleOutputs)
        s4 == ForEach(LAMBDA t, o : Subscribe(t, "alarm/output/trigger", o),
                      s3, activeButtonOutputs)
        s5 == Subscribe(s4, "republish", 0)
        s6 == publishPanelStatus(s5, s5.panelReady)
        s7 == On(On(On(On(s6, "PStatusChanged"), "ZStatusChanged"),
                    "OStatusChanged"), "SStatusChanged")
        s8 == Subscribe(s7, "homeassistant/status", 0)
    IN  On(s8, "Clock")

installSocketListeners(s) ==
    LET s1 == On(On(On(On(s, "Disconnected"), "PanelCommReady"),
                    "SocketError"), "CommsError")
    IN  [s1 EXCEPT !.disconnectedListeners = Append(@, "gate"),
                   !.socketListeners = TRUE]

\* if (!initialized) {...} else {...}, discovery published on every pass
announce_always(s) == publishOnline(publishHomeAssistantDiscoveryInfo(s))

\* if (!initialized) {...} else {...}, 'online' announced before discovery
announce_onlineFirst(s) ==
    IF ~s.initialized
    THEN publishHomeAssistantDiscoveryInfo(publishOnline(s))
    ELSE publishOnline(s)

\* if (!initialized) {...} else {...}
announce(s) ==
    IF ~s.initialized
    THEN publishOnline(publishHomeAssistantDiscoveryInfo(s))
    ELSE publishOnline(s)

\* if (!listenerInstalled) {...}, without the test
installListenersOnce_always(s) ==
    [installListeners(s) EXCEPT !.listenerInstalled = TRUE]

\* if (!listenerInstalled) {...}; listenerInstalled = true
installListenersOnce(s) ==
    LET s1 == IF ~s.listenerInstalled THEN installListeners(s) ELSE s
    IN  [s1 EXCEPT !.listenerInstalled = TRUE]

\* panelOrMqttConnected without the test of mqttReady
panelOrMqttConnected_noBusTest(s) ==
    IF ~s.panelReady THEN s
    ELSE
      LET s1 == announce(s)
          s2 == IF s1.panelReady THEN publishPanelStatus(s1, TRUE) ELSE s1
          s3 == installListenersOnce(s2)
          s4 == IF ~s3.socketListeners
                THEN installSocketListeners(s3)
                ELSE [s3 EXCEPT !.reconnecting = FALSE]
      IN  [s4 EXCEPT !.initialized = TRUE]

panelOrMqttConnected(s) ==
    IF ~s.panelReady THEN s
    ELSE IF ~s.mqttReady THEN s
    ELSE
      LET s1 == announce(s)
          s2 == IF s1.panelReady THEN publishPanelStatus(s1, TRUE) ELSE s1
          s3 == installListenersOnce(s2)
          s4 == IF ~s3.socketListeners
                THEN installSocketListeners(s3)
                ELSE [s3 EXCEPT !.reconnecting = FALSE]
      IN  [s4 EXCEPT !.initialized = TRUE]

(***************************************************************************)
(* Strings the program takes apart, as the characters they are made of.    *)
(***************************************************************************)
armed_ == <<"a", "r", "m", "e", "d", "_">>
group_ == <<"g", "r", "o", "u", "p">>

Chars(str) ==
    CASE str = "disarmed" -> <<"d", "i", "s", "a", "r", "m", "e", "d">>
      [] str = "armed_home" -> armed_ \o <<"h", "o", "m", "e">>
      [] str = "armed_away" -> armed_ \o <<"a", "w", "a", "y">>
      [] str = "armed_night" -> armed_ \o <<"n", "i", "g", "h", "t">>
      [] str = "armed_group" -> armed_ \o group_
      [] str = "armed_group_A" -> armed_ \o group_ \o <<"_", "A">>
      [] str = "armed_group_B" -> armed_ \o group_ \o <<"_", "B">>
      [] str = "armed_group_C" -> armed_ \o group_ \o <<"_", "C">>
      [] str = "armed_group_D" -> armed_ \o group_ \o <<"_", "D">>
      [] str = "group" -> group_
      [] OTHER -> <<str>>     \* a string with no character the program looks for

\* String.prototype.includes
includes(str, sub) ==
    LET c == Chars(str)
        w == Chars(sub)
    IN  \E i \in 1..(Len(c) - Len(w) + 1) : SubSeq(c, i, i + Len(w) - 1) = w

\* code.substr(code.length - 1)
lastChar(str) == Chars(str)[Len(Chars(str))]

groupLetterToNumber(letter) ==
    IF letter = "A" THEN "1"
    ELSE IF letter = "B" THEN "2"
    ELSE IF letter = "C" THEN "3"
    ELSE IF letter = "D" THEN "4"
    ELSE "undefined"

(***************************************************************************)
(* partitionReadyStatus is a JS array: index i is element i + 1 here, a    *)
(* hole or an index past the end reads "undefined"; what discovery pushes  *)
(* is an object ("object"), what partitionListener assigns is a boolean    *)
(* ("true"/"false").                                                       *)
(***************************************************************************)
ArrayGet(arr, i) == IF i + 1 <= Len(arr) THEN arr[i + 1] ELSE "undefined"

ArraySet(arr, i, v) ==
    [k \in 1..(IF i + 1 > Len(arr) THEN i + 1 ELSE Len(arr)) |->
        IF k = i + 1 THEN v ELSE IF k <= Len(arr) THEN arr[k] ELSE "undefined"]

\* partitionReadyStatus[partId] === true
readyStatusIsTrue(s, partId) == ArrayGet(s.partitionReadyStatus, partId) = "true"

(***************************************************************************)
(* Device action calls.                                                    *)
(***************************************************************************)
ArmCalls == {"armHome", "armAway", "armGroup"}

Call(s, method, partId, arg) ==
    LET s1 == Emit(s, "call", method, partId, arg)
    IN  IF /\ method \in ArmCalls
           /\ s.awaitPartitionReady /\ partId = s.partitionDetailId
           /\ s.reqCalls < MaxCalls
        THEN [s1 EXCEPT !.reqCalls = @ + 1]
        ELSE s1

\* `await panel.<method>(...)`: the call is made now; if the panel is going to
\* reject it, what follows the await runs when the rejection is delivered
\* (ArmAwayRejected, CallRejected)
Await(s, method, code, partId, group, rejects) ==
    LET s1 == Call(s, method, partId, IF method = "armGroup" THEN group ELSE "")
    IN  IF rejects
        THEN [s1 EXCEPT !.pendingAway =
                 Append(@, [method |-> method, code |-> code, partId |-> partId,
                            group |-> group, caught |-> s.awaited])]
        ELSE s1

\* awaitPartitionReady = true; partitionDetailId = partId; partitionDetailType = code
setAwait(s, code, partId) ==
    LET s1 == [s EXCEPT !.awaitPartitionReady = TRUE,
                        !.partitionDetailId = partId,
                        !.partitionDetailType = code]
    IN  IF s.command /= "none"
        THEN [s1 EXCEPT !.reqCode = s.command, !.reqCalls = 0, !.reqAge = 0]
        ELSE s1

\* case 'armed_group' of the switch, also entered by falling through
caseArmedGroup(s, code, partId, group, rejects) ==
    IF readyStatusIsTrue(s, partId)
    THEN Await(s, "armGroup", code, partId, group, rejects)
    ELSE setAwait(s, code, partId)

\* case 'armed_away' of the switch, also entered by falling through: the call
\* is made now; if it is going to reject, the catch block and what it falls
\* through to run when the rejection is delivered (ArmAwayRejected)
caseArmedAway(s, code, partId, group, rejects) ==
    Await(s, "armAway", code, partId, group, rejects)

\* changeAlarmStatus whose case 'disarmed' also drops the outstanding request
changeAlarmStatus_disarmClears(s, code0, partId, rejects) ==
    LET isGroup == includes(code0, "group")
        letter == IF isGroup THEN lastChar(code0) ELSE "A"
        code == IF isGroup THEN "armed_group" ELSE code0
        group == groupLetterToNumber(letter)
    IN  CASE code = "disarmed" ->
               Await([s EXCEPT !.awaitPartitionReady = FALSE],
                     "disarmPart", code, partId, group, rejects)
          [] code = "armed_home" ->
               IF readyStatusIsTrue(s, partId)
               THEN Await(s, "armHome", code, partId, group, rejects)
               ELSE caseArmedAway(setAwait(s, code, partId), code, partId, group, rejects)
          [] code = "armed_away" -> caseArmedAway(s, code, partId, group, rejects)
          [] code = "armed_group" -> caseArmedGroup(s, code, partId, group, rejects)
          [] OTHER -> s

changeAlarmStatus(s, code0, partId, rejects) ==
    LET isGroup == includes(code0, "group")
        letter == IF isGroup THEN lastChar(code0) ELSE "A"
        code == IF isGroup THEN "armed_group" ELSE code0
        group == groupLetterToNumber(letter)
    IN  CASE code = "disarmed" -> Await(s, "disarmPart", code, partId, group, rejects)
          [] code = "armed_home" ->
               IF readyStatusIsTrue(s, partId)
               THEN Await(s, "armHome", code, partId, group, rejects)
               ELSE caseArmedAway(setAwait(s, code, partId), code, partId, group, rejects)
          [] code = "armed_away" -> caseArmedAway(s, code, partId, group, rejects)
          [] code = "armed_group" -> caseArmedGroup(s, code, partId, group, rejects)
          [] OTHER -> s

(***************************************************************************)
(* State projection of a partition.                                        *)
(***************************************************************************)
returnPanelAlarmState(partition) ==
    IF partition.Arm THEN "armed_away"
    ELSE IF partition.HomeStay THEN "armed_home"
    ELSE IF partition.GrpAArm THEN "armed_group_A"
    ELSE IF partition.GrpBArm THEN "armed_group_B"
    ELSE IF partition.GrpCArm THEN "armed_group_C"
    ELSE IF partition.GrpDArm THEN "armed_group_D"
    ELSE "undefined"

\* Array.prototype.find returning the last match instead of the first
findKey_last(modes, panelState) ==
    LET hits == SelectSeq(ArmingKeys, LAMBDA key : modes[key] = panelState)
    IN  IF hits = <<>> THEN "undefined" ELSE hits[Len(hits)]

\* Array.prototype.find over Object.keys(modes), in insertion order
findKey(modes, panelState) ==
    LET hits == SelectSeq(ArmingKeys, LAMBDA key : modes[key] = panelState)
    IN  IF hits = <<>> THEN "undefined" ELSE Head(hits)

\* "TypeError": alarmMapping has no record at index Id - 1, or that record is
\* not keyed by the partition's label
alarmPayload(s, p) ==
    LET partition == s.partitions[p]
    IN  IF partition.Alarm THEN "triggered"
        ELSE IF ~partition.Arm /\ ~partition.HomeStay /\ ~partition.GrpAArm
                /\ ~partition.GrpBArm /\ ~partition.GrpCArm /\ ~partition.GrpDArm
        THEN "disarmed"
        ELSE IF p > Len(s.alarmMapping) THEN "TypeError"
        ELSE IF s.alarmMapping[p].label /= PartitionLabel(p) THEN "TypeError"
        ELSE findKey(s.alarmMapping[p].modes, returnPanelAlarmState(partition))

partitionStatus(partition) == IF partition.Ready THEN "0" ELSE "1"

publishPartitionStateChanged(s, p, arming) ==
    IF ~arming
    THEN IF alarmPayload(s, p) = "TypeError"
         THEN Emit(s, "throw", "TypeError", p, "")
         ELSE Publish(s, "alarm/partition/status", p, alarmPayload(s, p))
    ELSE Publish(s, "alarm/partition/status", p, "arming")

publishPartitionStatus(s, p) ==
    Publish(s, "alarm/partition-status/status", p, partitionStatus(s.partitions[p]))

(***************************************************************************)
(* State projection of zones, outputs and the system.  A JSON attribute    *)
(* blob is the payload "json".                                             *)
(***************************************************************************)
\* outputState(output, EventStr).output
\* outputState deciding by the stored flag whatever the event string
outputState_flagOnly(output, EventStr) ==
    IF output.Active THEN "1" ELSE "0"

outputState(output, EventStr) ==
    IF EventStr /= "0"
    THEN IF EventStr = "Activated" \/ EventStr = "Pulsed" THEN "1" ELSE "0"
    ELSE IF output.Active THEN "1" ELSE "0"

alarmSensorState(zone) == IF zone.Alarm /\ zone.Arm THEN "1" ELSE "0"

publishSystemStateChange(s, message) == Publish(s, "alarm/systemmessage", 0, message)

publishSystemBatteryStatus(s, message) == Publish(s, "alarm/systembattery", 0, message)

\* publishZoneStateChange with the open/closed value inverted
publishZoneStateChange_inverted(s, z, publishAttributes) ==
    LET s1 == IF publishAttributes THEN Publish(s, "alarm/zone", z, "json") ELSE s
    IN  Publish(s1, "alarm/zone/status", z, IF s1.zones[z].Open THEN "0" ELSE "1")

publishZoneStateChange(s, z, publishAttributes) ==
    LET s1 == IF publishAttributes THEN Publish(s, "alarm/zone", z, "json") ELSE s
    IN  Publish(s1, "alarm/zone/status", z, IF s1.zones[z].Open THEN "1" ELSE "0")

publishZoneBatteryStateChange(s, z, publishAttributes) ==
    LET s1 == IF publishAttributes THEN Publish(s, "alarm/zone/battery", z, "json") ELSE s
    IN  Publish(s1, "alarm/zone/battery/status", z,
                IF s1.zones[z].LowBattery THEN "1" ELSE "0")

\* the attributes go to the zone's battery topic, as in the source
publishZoneAlarmStateChange(s, z, publishAttributes) ==
    LET s1 == IF publishAttributes THEN Publish(s, "alarm/zone/battery", z, "json") ELSE s
    IN  Publish(s1, "alarm/zone/alarm/status", z, alarmSensorState(s1.zones[z]))

publishOutputStateChange(s, o, EventStr) ==
    Publish(s, "alarm/output/status", o, outputState(s.outputs[o], EventStr))

publishZoneBypassStateChange(s, z) ==
    Publish(s, "alarm/zone-bypass/status", z, IF s.zones[z].Bypass THEN "1" ELSE "0")

publishInitialStates(s) ==
    LET s1 == ForEach(LAMBDA t, p : publishPartitionStatus(
                                        publishPartitionStateChanged(t, p, FALSE), p),
                      s, activePartitions(s))
        s2 == ForEach(LAMBDA t, z :
                          publishZoneAlarmStateChange(
                              publishZoneBatteryStateChange(
                                  publishZoneBypassStateChange(
                                      publishZoneStateChange(t, z, TRUE), z), z, TRUE),
                              z, TRUE),
                      s1, activeZones)
        s3 == ForEach(LAMBDA t, o : publishOutputStateChange(t, o, "0"),
                      s2, activeToggleOutputs)
        s4 == ForEach(LAMBDA t, o : publishOutputStateChange(t, o, "0"),
                      s3, activeButtonOutputs)
        s5 == ForEach(LAMBDA t, o : publishOutputStateChange(t, o, "0"),
                      s4, activeSystemOutputs)
        s6 == [s5 EXCEPT !.initialized = TRUE]
        s7 == publishSystemStateChange(s6, "System initialized")
        s8 == publishPanelStatus(s7, TRUE)
    IN  publishSystemBatteryStatus(s8, "BatteryOk")

zoneListener(s, Id, EventStr) ==
    LET s1 == IF EventStr \in {"Closed", "Open"}
              THEN publishZoneStateChange(s, Id, FALSE) ELSE s
        s2 == IF EventStr \in {"Bypassed", "UnBypassed"}
              THEN publishZoneStateChange(publishZoneBypassStateChange(s1, Id), Id, TRUE)
              ELSE s1
        s3 == IF EventStr \in {"LowBattery", "BatteryOk"}
              THEN publishZoneBatteryStateChange(
                       publishZoneStateChange(s2, Id, TRUE), Id, FALSE)
              ELSE s2
    IN  IF EventStr \in {"Alarm", "StandBy"}
        THEN publishZoneAlarmStateChange(publishZoneStateChange(s3, Id, TRUE), Id, FALSE)
        ELSE s3

outputListener(s, Id, EventStr) ==
    IF EventStr \in {"Pulsed", "Activated", "Deactivated"}
    THEN publishOutputStateChange(s, Id, EventStr)
    ELSE s

statusListener(s, EventStr) ==
    IF EventStr \in {"LowBattery", "BatteryOk"}
    THEN publishSystemBatteryStatus(s, EventStr)
    ELSE publishSystemStateChange(s, EventStr)

(***************************************************************************)
(* The listener of PStatusChanged.  `partitionwait` is a local of the      *)
(* listener: clearTimeout(partitionwait) on the Ready branch is handed the *)
(* undefined local of this invocation and cancels nothing; the timers the  *)
(* NotReady branch starts stay alive until they fire.                      *)
(***************************************************************************)
AlarmStateEvents ==
    {"Armed", "Disarmed", "HomeStay", "HomeDisarmed", "Alarm", "StandBy",
     "GrpAArmed", "GrpBArmed", "GrpCArmed", "GrpDArmed",
     "GrpADisarmed", "GrpBDisarmed", "GrpCDisarmed", "GrpDDisarmed"}

clearTimeoutLocal(s) == s

readyBranch(s, Id, rejects) ==
    LET s1 == [s EXCEPT !.partitionReadyStatus = ArraySet(@, Id, "true")]
    IN  IF s1.awaitPartitionReady
        THEN LET s2 == clearTimeoutLocal(s1)
                 s3 == changeAlarmStatus(s2, s2.partitionDetailType,
                                         s2.partitionDetailId, rejects)
             IN  [s3 EXCEPT !.awaitPartitionReady = FALSE, !.armingTimer = FALSE]
        ELSE s1

notReadyBranch(s, Id) ==
    LET s1 == [s EXCEPT !.partitionReadyStatus = ArraySet(@, Id, "false")]
        s2 == publishPartitionStateChanged(s1, Id, TRUE)
    IN  IF s2.awaitPartitionReady /\ ~s2.armingTimer
        THEN [s2 EXCEPT !.armingTimer = TRUE,
                        !.partitionwait =
                            Append(@, [Id |-> Id, remaining |-> ArmingTimeoutMs])]
        ELSE s2

partitionListener(s, Id, EventStr, rejects) ==
    LET s1 == IF EventStr \in AlarmStateEvents
              THEN publishPartitionStateChanged(s, Id, FALSE)
              ELSE s
    IN  IF EventStr \in {"Ready", "NotReady"}
        THEN LET s2 == publishPartitionStatus(s1, Id)
             IN  IF EventStr = "Ready"
                 THEN readyBranch(s2, Id, rejects)
                 ELSE notReadyBranch(s2, Id)
        ELSE s1

(***************************************************************************)
(* Error classification.  What errorListener tests of `type` and `data`    *)
(* is which marker substrings they contain; an error is given here by the  *)
(* marker its data carries ("other" carries none).                         *)
(***************************************************************************)
ErrorTypes == {"CommsError", "SocketError"}

ErrorData ==
    {"New socket being connected", "Disconnected", "No reconnection",
     "EHOSTUNREACH", "Cloud socket Closed", "ECONNRESET", "Cloud", "other"}

\* data.includes(marker)
dataIncludes(data, marker) ==
    \/ data = marker
    \/ data = "Cloud socket Closed" /\ marker = "Cloud"

\* removeListener is handed four new arrow functions, which are no registered
\* listener: nothing is removed, only the flag is reset
removeSocketListeners(s) == [s EXCEPT !.socketListeners = FALSE]

socketDisconnected(s, socket) ==
    IF s.panelReady THEN [s EXCEPT !.reconnecting = FALSE]
    ELSE IF socket
    THEN publishState(removeSocketListeners(Emit(s, "call", "disconnect", 0, "")), FALSE)
    ELSE s

\* errorListener whose final else flags a reconnect
errorListener_fallback(s, type, data) ==
    LET s1 == IF dataIncludes(data, "Cloud")
              THEN publishPanelStatus(s, TRUE)
              ELSE publishPanelStatus(s, FALSE)
    IN  IF type = "CommsError"
        THEN IF dataIncludes(data, "New socket being connected")
             THEN [s1 EXCEPT !.reconnecting = TRUE]
             ELSE IF dataIncludes(data, "Disconnected")
             THEN removeSocketListeners(s1)
             ELSE IF dataIncludes(data, "No reconnection")
             THEN [removeSocketListeners(s1) EXCEPT !.reconnecting = FALSE]
             ELSE s1
        ELSE IF dataIncludes(data, "EHOSTUNREACH")
             THEN [s1 EXCEPT !.panelReady = FALSE, !.reconnecting = TRUE]
             ELSE IF dataIncludes(data, "Cloud socket Closed")
             THEN LET s2 == socketDisconnected([s1 EXCEPT !.panelReady = FALSE], TRUE)
                  IN  [removeSocketListeners(s2) EXCEPT !.reconnecting = TRUE]
             ELSE IF dataIncludes(data, "ECONNRESET")
             THEN removeSocketListeners([s1 EXCEPT !.reconnecting = TRUE])
             ELSE [s1 EXCEPT !.reconnecting = TRUE]

errorListener(s, type, data) ==
    LET s1 == IF dataIncludes(data, "Cloud")
              THEN publishPanelStatus(s, TRUE)
              ELSE publishPanelStatus(s, FALSE)
    IN  IF type = "CommsError"
        THEN IF dataIncludes(data, "New socket being connected")
             THEN [s1 EXCEPT !.reconnecting = TRUE]
             ELSE IF dataIncludes(data, "Disconnected")
             THEN removeSocketListeners(s1)
             ELSE IF dataIncludes(data, "No reconnection")
             THEN [removeSocketListeners(s1) EXCEPT !.reconnecting = FALSE]
             ELSE s1
        ELSE IF dataIncludes(data, "EHOSTUNREACH")
             THEN [s1 EXCEPT !.panelReady = FALSE, !.reconnecting = TRUE]
             ELSE IF dataIncludes(data, "Cloud socket Closed")
             THEN LET s2 == socketDisconnected([s1 EXCEPT !.panelReady = FALSE], TRUE)
                  IN  [removeSocketListeners(s2) EXCEPT !.reconnecting = TRUE]
             ELSE IF dataIncludes(data, "ECONNRESET")
             THEN removeSocketListeners([s1 EXCEPT !.reconnecting = TRUE])
             ELSE s1

(***************************************************************************)
(* Initial state: the closure variables as declared, the panel's entities  *)
(* as the panel will report them, the configuration as loaded.             *)
(***************************************************************************)
\* the panel starts with every zone closed and quiet, every output inactive
ZoneInit ==
    [Open : {FALSE}, Bypass : {FALSE}, LowBattery : {FALSE}, Alarm : {FALSE},
     Arm : {FALSE}]

OutputInit == [Active : {FALSE}]

\* a disarmed partition
PartitionInit ==
    [Exist : {TRUE}, Ready : BOOLEAN, Arm : {FALSE}, HomeStay : {FALSE},
     GrpAArm : {FALSE}, GrpBArm : {FALSE}, GrpCArm : {FALSE}, GrpDArm : {FALSE},
     Alarm : {FALSE}]

\* every combination of flags a partition can be found in
PartitionStates ==
    [Exist : {TRUE}, Ready : BOOLEAN, Arm : BOOLEAN, HomeStay : BOOLEAN,
     GrpAArm : BOOLEAN, GrpBArm : BOOLEAN, GrpCArm : BOOLEAN, GrpDArm : BOOLEAN,
     Alarm : BOOLEAN]

\* a partition slot of the panel: the partition may not exist (Exist false)
PartitionSlots ==
    [Exist : BOOLEAN, Ready : BOOLEAN, Arm : BOOLEAN, HomeStay : BOOLEAN,
     GrpAArm : BOOLEAN, GrpBArm : BOOLEAN, GrpCArm : BOOLEAN, GrpDArm : BOOLEAN,
     Alarm : BOOLEAN]

Init ==
    /\ panelReady = FALSE
    /\ mqttReady = FALSE
    /\ listenerInstalled = FALSE
    /\ socketListeners = FALSE
    /\ initialized = FALSE
    /\ reconnecting = FALSE
    /\ awaitPartitionReady = FALSE
    /\ partitionDetailId = NoPartition
    /\ partitionDetailType = "undefined"
    /\ partitionReadyStatus = <<>>
    /\ armingTimer = FALSE
    /\ loop = NoTimer
    /\ partitionwait = <<>>
    /\ alarmMapping = <<>>
    /\ partitions \in [Partitions -> PartitionSlots]
    /\ disconnectedListeners = <<>>
    /\ pendingAway = <<>>
    /\ socketMode \in {"direct", "proxy"}
    /\ arming_modes \in ArmingModeChoices
    /\ zones \in [Zones -> ZoneInit]
    /\ outputs \in [Outputs -> OutputInit]
    /\ orphanLoops = <<>>
    /\ republishTimers = <<>>
    /\ out = <<>>
    /\ reqCode = "none"
    /\ reqCalls = 0
    /\ reqAge = 0
    /\ onlineAge = 0
    /\ bothUpSeen = FALSE
    /\ stale = {}

(***************************************************************************)
(* Device-link and bus-link events.                                        *)
(***************************************************************************)
\* panel.on('SystemInitComplete')
SystemInitComplete ==
    /\ Len(disconnectedListeners) + 2 <= MaxListeners
    /\ LET s1 == [Cur EXCEPT !.disconnectedListeners = Append(@, "init")]
           s2 == IF ~s1.panelReady
                 THEN panelOrMqttConnected([s1 EXCEPT !.panelReady = TRUE])
                 ELSE s1
       IN  Commit(s2)

\* mqttClient.on('connect')
MqttConnect ==
    /\ Len(disconnectedListeners) + 1 <= MaxListeners
    /\ LET s1 == IF ~Cur.mqttReady
                 THEN panelOrMqttConnected([Cur EXCEPT !.mqttReady = TRUE])
                 ELSE Cur
       IN  Commit(s1)

\* mqttClient.on('disconnect'), on('close'), on('error'): the same handler body
MqttClose ==
    /\ Commit([Cur EXCEPT !.mqttReady = FALSE])

\* one listener of tcpSocket 'Disconnected': the one SystemInitComplete
\* registers ("init") or the one panelOrMqttConnected registers ("gate")
runDisconnectedListener(s, kind) ==
    IF kind = "init"
    THEN publishOffline([s EXCEPT !.panelReady = FALSE, !.socketListeners = FALSE])
    ELSE publishPanelStatus(s, FALSE)

\* tcpSocket emits 'Disconnected': every registered listener runs, in order
TcpDisconnected ==
    /\ disconnectedListeners /= <<>>
    /\ Commit(ForEach(runDisconnectedListener, Cur, disconnectedListeners))

\* number of listener sets panelOrMqttConnected has registered
gateSets(s) == Len(SelectSeq(s.disconnectedListeners, LAMBDA k : k = "gate"))

\* tcpSocket emits 'SocketError' or riscoComm emits 'CommsError': every
\* registered listener runs errorListener
ErrorEvent(type, data) ==
    /\ gateSets(Cur) >= 1
    /\ Commit(ForEach(LAMBDA s, i : errorListener(s, type, data), Cur, Ids(gateSets(Cur))))

\* riscoComm emits 'Clock'
Clock ==
    /\ listenerInstalled
    /\ Commit(publishPanelStatus(publishOnline(Cur), TRUE))

\* a heartbeat timer fires: the one `loop` holds (i = 0) or an orphan
LoopTimeout ==
    \E i \in 0..Len(orphanLoops) :
        /\ IF i = 0 THEN loop = 0 ELSE orphanLoops[i] = 0
        /\ LET s1 == IF i = 0
                     THEN [Cur EXCEPT !.loop = NoTimer]
                     ELSE [Cur EXCEPT !.orphanLoops =
                               SubSeq(@, 1, i - 1) \o SubSeq(@, i + 1, Len(@))]
           IN  Commit(publishPanelStatus(publishOffline(s1), FALSE))

RepublishPayloads == {"states", "autodiscovery", "communications", "other"}

\* the republish branch with a final else that republishes the states
MqttMessageRepublish_fallback(payload) ==
    /\ listenerInstalled
    /\ Commit(CASE payload = "states" -> publishInitialStates(Cur)
                [] payload = "autodiscovery" -> publishHomeAssistantDiscoveryInfo(Cur)
                [] payload = "communications" ->
                     [removeSocketListeners(Emit(Cur, "call", "disconnect", 0, ""))
                          EXCEPT !.reconnecting = TRUE]
                [] OTHER -> publishInitialStates(Cur))

\* message on <root>/republish
MqttMessageRepublish(payload) ==
    /\ listenerInstalled
    /\ Commit(CASE payload = "states" -> publishInitialStates(Cur)
                [] payload = "autodiscovery" -> publishHomeAssistantDiscoveryInfo(Cur)
                [] payload = "communications" ->
                     [removeSocketListeners(Emit(Cur, "call", "disconnect", 0, ""))
                          EXCEPT !.reconnecting = TRUE]
                [] OTHER -> Cur)

(***************************************************************************)
(* Partition events, arm commands and the arming timers.                   *)
(***************************************************************************)
Commands ==
    {"disarmed", "armed_home", "armed_away", "armed_group_B", "armed_night"}

ArmCommands == Commands \ {"disarmed", "armed_night"}

\* the panel changes a partition's Ready flag and emits PStatusChanged (on a
\* change of the flag only); the listener exists once the gate installed it
PStatusChanged(Id, EventStr, rejects) ==
    /\ EventStr \in {"Ready", "NotReady"}
    /\ partitions[Id].Ready = (EventStr = "NotReady")
    /\ rejects => Len(pendingAway) < MaxPending
    /\ (EventStr = "NotReady" /\ awaitPartitionReady /\ ~armingTimer)
           => Len(partitionwait) < MaxTimers
    /\ LET s1 == [Cur EXCEPT !.partitions[Id].Ready = (EventStr = "Ready"),
                             !.stale = @ \ {Id}]
           s2 == IF s1.listenerInstalled
                 THEN partitionListener(s1, Id, EventStr, rejects)
                 ELSE s1
       IN  Commit(s2)

\* the flag an arm-state event reports, and its new value
eventFlag(EventStr) ==
    CASE EventStr \in {"Armed", "Disarmed"} -> "Arm"
      [] EventStr \in {"HomeStay", "HomeDisarmed"} -> "HomeStay"
      [] EventStr \in {"Alarm", "StandBy"} -> "Alarm"
      [] EventStr \in {"GrpAArmed", "GrpADisarmed"} -> "GrpAArm"
      [] EventStr \in {"GrpBArmed", "GrpBDisarmed"} -> "GrpBArm"
      [] EventStr \in {"GrpCArmed", "GrpCDisarmed"} -> "GrpCArm"
      [] EventStr \in {"GrpDArmed", "GrpDDisarmed"} -> "GrpDArm"

eventValue(EventStr) ==
    EventStr \in {"Armed", "HomeStay", "Alarm", "GrpAArmed", "GrpBArmed",
                  "GrpCArmed", "GrpDArmed"}

\* the panel changes an arm-state flag of a partition and emits PStatusChanged
\* (on a change of the flag only)
PArmStatusChanged(Id, EventStr) ==
    /\ EventStr \in AlarmStateEvents
    /\ partitions[Id][eventFlag(EventStr)] /= eventValue(EventStr)
    /\ LET s1 == [Cur EXCEPT !.partitions[Id][eventFlag(EventStr)] = eventValue(EventStr)]
           s2 == IF s1.listenerInstalled
                 THEN partitionListener(s1, Id, EventStr, FALSE)
                 ELSE s1
       IN  Commit(s2)

\* message on <root>/alarm/partition/<partitionId>/set
MqttMessagePartitionSet(partitionId, command, rejects) ==
    /\ listenerInstalled
    /\ rejects => Len(pendingAway) < MaxPending
    /\ Commit(changeAlarmStatus([Cur EXCEPT !.command = command, !.awaited = TRUE],
                                command, partitionId, rejects))

\* `await panel.armAway(partId)` rejects: the catch block logs and control
\* falls through to case 'armed_group'
ArmAwayRejected(i, rejects) ==
    /\ i \in 1..Len(pendingAway)
    /\ pendingAway[i].method = "armAway"
    /\ LET k == pendingAway[i]
           s1 == [Cur EXCEPT !.awaited = k.caught,
                             !.pendingAway =
                                 SubSeq(@, 1, i - 1) \o SubSeq(@, i + 1, Len(@))]
       IN  Commit(caseArmedGroup(s1, k.code, k.partId, k.group, rejects))

\* any other awaited device call rejects: the promise of the async function
\* that made it rejects; the message handlers catch that and log an error,
\* partitionListener dropped the promise and the rejection is unhandled
CallRejected(i) ==
    /\ i \in 1..Len(pendingAway)
    /\ pendingAway[i].method /= "armAway"
    /\ LET k == pendingAway[i]
           s1 == [Cur EXCEPT !.pendingAway =
                      SubSeq(@, 1, i - 1) \o SubSeq(@, i + 1, Len(@))]
       IN  Commit(IF k.caught
                  THEN Emit(s1, "log", "error", k.partId, k.method)
                  ELSE Emit(s1, "unhandledRejection", k.method, k.partId, ""))

\* an arming timer fires
ArmingTimeout(i) ==
    /\ i \in 1..Len(partitionwait)
    /\ partitionwait[i].remaining = 0
    /\ Commit([Cur EXCEPT !.awaitPartitionReady = FALSE, !.armingTimer = FALSE,
                          !.partitionwait =
                              SubSeq(@, 1, i - 1) \o SubSeq(@, i + 1, Len(@)),
                          !.stale =
                              IF /\ awaitPartitionReady
                                 /\ partitionDetailId = partitionwait[i].Id
                              THEN @ \cup {partitionwait[i].Id} ELSE @])

(***************************************************************************)
(* Zone, output and system events; bypass and output commands.             *)
(***************************************************************************)
ZoneEvents ==
    {"Open", "Closed", "Bypassed", "UnBypassed", "LowBattery", "BatteryOk",
     "Alarm", "StandBy", "Armed", "Disarmed"}

zoneEventFlag(EventStr) ==
    CASE EventStr \in {"Open", "Closed"} -> "Open"
      [] EventStr \in {"Bypassed", "UnBypassed"} -> "Bypass"
      [] EventStr \in {"LowBattery", "BatteryOk"} -> "LowBattery"
      [] EventStr \in {"Alarm", "StandBy"} -> "Alarm"
      [] EventStr \in {"Armed", "Disarmed"} -> "Arm"

zoneEventValue(EventStr) ==
    EventStr \in {"Open", "Bypassed", "LowBattery", "Alarm", "Armed"}

\* the panel changes a flag of a zone and emits ZStatusChanged (on a change of
\* the flag only)
ZStatusChanged(Id, EventStr) ==
    /\ EventStr \in ZoneEvents
    /\ zones[Id][zoneEventFlag(EventStr)] /= zoneEventValue(EventStr)
    /\ LET s1 == [Cur EXCEPT !.zones[Id][zoneEventFlag(EventStr)] = zoneEventValue(EventStr)]
           s2 == IF s1.listenerInstalled THEN zoneListener(s1, Id, EventStr) ELSE s1
       IN  Commit(s2)

OutputEvents == {"Activated", "Deactivated", "Pulsed"}

\* the panel switches an output (or pulses it, which leaves Active as it is)
\* and emits OStatusChanged
OStatusChanged(Id, EventStr) ==
    /\ EventStr \in OutputEvents
    /\ EventStr /= "Pulsed" => outputs[Id].Active /= (EventStr = "Activated")
    /\ LET s1 == IF EventStr = "Pulsed" THEN Cur
                 ELSE [Cur EXCEPT !.outputs[Id].Active = (EventStr = "Activated")]
           s2 == IF s1.listenerInstalled THEN outputListener(s1, Id, EventStr) ELSE s1
       IN  Commit(s2)

SystemEvents == {"LowBattery", "BatteryOk", "ACTrouble"}

\* the panel emits SStatusChanged
SStatusChanged(EventStr) ==
    /\ EventStr \in SystemEvents
    /\ listenerInstalled
    /\ Commit(statusListener(Cur, EventStr))

\* what reading panel.outputs.byId(outputId).Status gives: the raw status
\* string of the panel ('a' when active) or undefined, never '1' or '0'
OutputStatusReads == {"undefined", "a", "-"}

OutputCommands == {"0", "1"}

\* the outputs whose trigger topic is subscribed
triggerOutputs ==
    {activeToggleOutputs[i] : i \in 1..Len(activeToggleOutputs)}
        \cup {activeButtonOutputs[i] : i \in 1..Len(activeButtonOutputs)}

\* message on <root>/alarm/output/<outputId>/trigger
MqttMessageOutputTrigger(outputId, outputcommand, Status, rejects) ==
    /\ listenerInstalled
    /\ outputId \in triggerOutputs
    /\ rejects => Len(pendingAway) < MaxPending
    /\ LET s == [Cur EXCEPT !.awaited = TRUE]
       IN  Commit(IF outputcommand /= Status
                  THEN Await(s, "toggleOutput", "", outputId, "", rejects)
                  ELSE s)

BypassCommands == {"0", "1", "on"}

\* parseInt(message.toString(), 10) == 1
parsesToOne(payload) == payload = "1"

\* the bypass command taking the toggle as done: it sets the flag and
\* publishes the new bypass state itself
MqttMessageZoneBypass_optimistic(zoneId, payload, rejects) ==
    /\ listenerInstalled
    /\ zoneId \in {activeZones[i] : i \in 1..Len(activeZones)}
    /\ rejects => Len(pendingAway) < MaxPending
    /\ LET s == [Cur EXCEPT !.awaited = TRUE]
       IN  Commit(IF parsesToOne(payload) /= s.zones[zoneId].Bypass
                  THEN publishZoneBypassStateChange(
                           [Await(s, "toggleBypassZone", "", zoneId, "", rejects)
                               EXCEPT !.zones[zoneId].Bypass = parsesToOne(payload)],
                           zoneId)
                  ELSE s)

\* message on <root>/alarm/zone/<zoneId>-bypass/set
MqttMessageZoneBypass(zoneId, payload, rejects) ==
    /\ listenerInstalled
    /\ zoneId \in {activeZones[i] : i \in 1..Len(activeZones)}
    /\ rejects => Len(pendingAway) < MaxPending
    /\ LET s == [Cur EXCEPT !.awaited = TRUE]
       IN  Commit(IF parsesToOne(payload) /= s.zones[zoneId].Bypass
                  THEN Await(s, "toggleBypassZone", "", zoneId, "", rejects)
                  ELSE s)

(***************************************************************************)
(* The message handler of the bus client.  A topic is the sequence of the  *)
(* tokens it is made of (words, separators, digit strings); a regular      *)
(* expression of the program is the sequence of the tokens it demands,     *)
(* "[0-9]+" standing for a digit string, anchored at both ends.            *)
(***************************************************************************)
risco_mqtt_topic == "risco-alarm-panel"

ha_discovery_prefix_topic == "homeassistant"

DigitStr == <<"1", "2", "3", "4", "5", "6", "7", "8", "9">>

IsDigits(token) == \E n \in 1..Len(DigitStr) : DigitStr[n] = token

\* the entity id a captured digit string denotes
parseId(token) == CHOOSE n \in 1..Len(DigitStr) : DigitStr[n] = token

ALARM_TOPIC_REGEX ==
    <<risco_mqtt_topic, "/", "alarm", "/", "partition", "/", "[0-9]+", "/", "set">>

ZONE_BYPASS_TOPIC_REGEX ==
    <<risco_mqtt_topic, "/", "alarm", "/", "zone", "/", "[0-9]+", "-bypass", "/", "set">>

OUTPUT_TOPIC_REGEX ==
    <<risco_mqtt_topic, "/", "alarm", "/", "output", "/", "[0-9]+", "/", "trigger">>

tokenMatches(pattern, token) ==
    IF pattern = "[0-9]+" THEN IsDigits(token) ELSE token = pattern

\* the capture group of a match
captured(regex, topic) ==
    topic[CHOOSE i \in 1..Len(regex) : regex[i] = "[0-9]+"]

\* RegExp.prototype.exec without the anchor `$`: a match may be followed by more
exec_unanchored(regex, topic) ==
    IF /\ Len(topic) >= Len(regex)
       /\ \A i \in 1..Len(regex) : tokenMatches(regex[i], topic[i])
    THEN captured(regex, topic)
    ELSE "null"

\* RegExp.prototype.exec: "null", or the capture group
exec(regex, topic) ==
    IF /\ Len(topic) = Len(regex)
       /\ \A i \in 1..Len(regex) : tokenMatches(regex[i], topic[i])
    THEN captured(regex, topic)
    ELSE "null"

\* the status branch starting its timer whatever the payload is
MqttMessageHaStatus_anyPayload(message) ==
    /\ listenerInstalled
    /\ Len(republishTimers) < MaxTimers
    /\ Commit([Cur EXCEPT !.republishTimers = Append(@, RepublishingDelay)])

\* message on <ha_discovery_prefix_topic>/status
MqttMessageHaStatus(message) ==
    /\ listenerInstalled
    /\ message = "online" => Len(republishTimers) < MaxTimers
    /\ Commit(IF message = "online"
              THEN [Cur EXCEPT !.republishTimers = Append(@, RepublishingDelay)]
              ELSE Cur)

\* the timer of the Home Assistant status branch fires
RepublishTimeout(i) ==
    /\ i \in 1..Len(republishTimers)
    /\ republishTimers[i] = 0
    /\ Commit(publishInitialStates(
                  [Cur EXCEPT !.republishTimers =
                       SubSeq(@, 1, i - 1) \o SubSeq(@, i + 1, Len(@))]))

\* mqttClient.on('message'): the chain of tests of the topic
MqttMessage(topic, message, rejects) ==
    IF exec(ALARM_TOPIC_REGEX, topic) /= "null"
    THEN MqttMessagePartitionSet(parseId(exec(ALARM_TOPIC_REGEX, topic)), message, rejects)
    ELSE IF exec(ZONE_BYPASS_TOPIC_REGEX, topic) /= "null"
    THEN MqttMessageZoneBypass(parseId(exec(ZONE_BYPASS_TOPIC_REGEX, topic)),
                               message, rejects)
    ELSE IF exec(OUTPUT_TOPIC_REGEX, topic) /= "null"
    THEN \E Status \in OutputStatusReads :
             MqttMessageOutputTrigger(parseId(exec(OUTPUT_TOPIC_REGEX, topic)),
                                      message, Status, rejects)
    ELSE IF topic = <<ha_discovery_prefix_topic, "/", "status">>
    THEN MqttMessageHaStatus(message)
    ELSE IF topic = <<risco_mqtt_topic, "/", "republish">>
    THEN MqttMessageRepublish(message)
    ELSE listenerInstalled /\ Commit(Cur)

\* the topics the bus delivers: the command topics of the panel's entities,
\* the two control topics, and topics of the same namespace that are none
PartitionSetTopic(id) ==
    <<risco_mqtt_topic, "/", "alarm", "/", "partition", "/", DigitStr[id], "/", "set">>

ZoneBypassTopic(id) ==
    <<risco_mqtt_topic, "/", "alarm", "/", "zone", "/", DigitStr[id], "-bypass", "/", "set">>

OutputTriggerTopic(id) ==
    <<risco_mqtt_topic, "/", "alarm", "/", "output", "/", DigitStr[id], "/", "trigger">>

OtherTopics ==
    {<<risco_mqtt_topic, "/", "alarm", "/", "partition", "/", "1", "/", "status">>,
     <<risco_mqtt_topic, "/", "alarm", "/", "partition", "/", "1", "/", "set", "/", "x">>,
     <<risco_mqtt_topic, "/", "alarm", "/", "partition", "/", "x", "/", "set">>,
     <<risco_mqtt_topic, "/", "alarm", "/", "zone", "/", "1", "/", "set">>,
     <<risco_mqtt_topic, "/", "alarm", "/", "zone", "/", "1", "-bypass", "/", "set", "/", "x">>,
     <<risco_mqtt_topic, "/", "alarm", "/", "output", "/", "1", "/", "set">>,
     <<risco_mqtt_topic, "/", "alarm", "/", "output", "/", "1", "/", "trigger", "/", "x">>,
     <<risco_mqtt_topic, "/", "alarm", "/", "status">>}

Topics ==
    {PartitionSetTopic(id) : id \in Partitions}
        \cup {ZoneBypassTopic(id) : id \in Zones}
        \cup {OutputTriggerTopic(id) : id \in Outputs}
        \cup {<<ha_discovery_prefix_topic, "/", "status">>,
              <<risco_mqtt_topic, "/", "republish">>}
        \cup OtherTopics

\* the payloads a client sends: two partition commands that need no retry,
\* the switch payloads, the platform's status, the republish payloads
Messages == {"disarmed", "armed_away", "0", "1", "online", "offline"} \cup RepublishPayloads

(***************************************************************************)
(* Passage of time: TickMs elapse; a timer that is due fires first.        *)
(***************************************************************************)
\* the time left on every live timer
Deadlines ==
    {partitionwait[i].remaining : i \in 1..Len(partitionwait)}
        \cup {orphanLoops[i] : i \in 1..Len(orphanLoops)}
        \cup {republishTimers[i] : i \in 1..Len(republishTimers)}
        \cup (IF loop = NoTimer THEN {} ELSE {loop})

\* the time that passes in one step: TickMs, or less when a timer is due sooner
Step == CHOOSE d \in Deadlines \cup {TickMs} : \A e \in Deadlines \cup {TickMs} : d <= e

elapse(ms) == IF ms = NoTimer THEN NoTimer ELSE ms - Step

MaxAge == ArmingTimeoutMs + TickMs

Tick ==
    /\ \A d \in Deadlines : d > 0
    /\ Commit([Cur EXCEPT
                 !.loop = elapse(@),
                 !.orphanLoops = [i \in 1..Len(@) |-> elapse(@[i])],
                 !.republishTimers = [i \in 1..Len(@) |-> elapse(@[i])],
                 !.partitionwait =
                     [i \in 1..Len(@) |-> [@[i] EXCEPT !.remaining = elapse(@)]],
                 !.reqAge = IF @ + Step > MaxAge THEN MaxAge ELSE @ + Step,
                 !.onlineAge = @ + Step])

(***************************************************************************)
(* Specifications.                                                         *)
(***************************************************************************)
LinkUp == SystemInitComplete \/ MqttConnect

LinkDown == MqttClose \/ TcpDisconnected

Errors == \E type \in ErrorTypes, data \in ErrorData : ErrorEvent(type, data)

Heartbeat == Clock \/ LoopTimeout

Republish == \E payload \in RepublishPayloads : MqttMessageRepublish(payload)

\* R: the outcomes the environment gives an armAway call (TRUE: it rejects)
PartitionEvents(R) ==
    \E Id \in Partitions, EventStr \in {"Ready", "NotReady"}, rejects \in R :
        PStatusChanged(Id, EventStr, rejects)

ArmCommand(R) ==
    \E partitionId \in Partitions, command \in Commands, rejects \in R :
        MqttMessagePartitionSet(partitionId, command, rejects)

Rejection ==
    \E i \in 1..MaxPending :
        \/ \E rejects \in BOOLEAN : ArmAwayRejected(i, rejects)
        \/ CallRejected(i)

ArmingTimers == \E i \in 1..MaxTimers : ArmingTimeout(i)

ArmStateEvents ==
    \E Id \in Partitions, EventStr \in AlarmStateEvents : PArmStatusChanged(Id, EventStr)

EntityEvents ==
    \/ \E Id \in Zones, EventStr \in ZoneEvents : ZStatusChanged(Id, EventStr)
    \/ \E Id \in Outputs, EventStr \in OutputEvents : OStatusChanged(Id, EventStr)
    \/ \E EventStr \in SystemEvents : SStatusChanged(EventStr)

EntityCommand(R) ==
    \/ \E outputId \in Outputs, outputcommand \in OutputCommands,
          Status \in OutputStatusReads, rejects \in R :
           MqttMessageOutputTrigger(outputId, outputcommand, Status, rejects)
    \/ \E zoneId \in Zones, payload \in BypassCommands, rejects \in R :
           MqttMessageZoneBypass(zoneId, payload, rejects)

\* the whole bridge
Next ==
    \/ LinkUp \/ LinkDown \/ Errors \/ Heartbeat \/ Republish
    \/ PartitionEvents(BOOLEAN) \/ ArmStateEvents \/ ArmCommand(BOOLEAN)
    \/ EntityEvents \/ EntityCommand(BOOLEAN) \/ Rejection
    \/ ArmingTimers \/ Tick
    \/ (\E topic \in Topics, message \in Messages, rejects \in BOOLEAN :
            MqttMessage(topic, message, rejects))
    \/ (\E i \in 1..MaxTimers : RepublishTimeout(i))

Spec == Init /\ [][Next]_vars

\* the arming retry machine: the links come up and stay up, the panel
\* accepts every armAway call
InitArm ==
    /\ partitions \in [Partitions -> PartitionInit]
    /\ socketMode = "direct"
    /\ arming_modes = ArmingModesDefault
    /\ Init

NextArm ==
    \/ (SystemInitComplete /\ ~panelReady) \/ (MqttConnect /\ ~mqttReady)
    \/ LoopTimeout
    \/ PartitionEvents({FALSE}) \/ ArmCommand({FALSE}) \/ ArmingTimers \/ Tick

SpecArm == InitArm /\ [][NextArm]_vars

\* the readiness gate: both links flap, no partition traffic (the Ready flags,
\* which no handler of NextGate reads, are those of a panel that starts ready)
InitGate ==
    /\ partitions \in [Partitions -> {q \in PartitionInit : q.Ready}]
    /\ arming_modes = ArmingModesDefault
    /\ Init

\* the state projection of a partition: partition 1 is found in any
\* combination of flags and changes its arm state, under any of the
\* arming-mode mappings; the other partitions stay disarmed
ProjectedPartition == 1

InitProject ==
    /\ partitions \in
           {[p \in Partitions |->
                IF p = ProjectedPartition THEN x
                ELSE CHOOSE q \in PartitionInit : q.Ready] :
            x \in {q \in PartitionStates : q.Ready}}
    /\ socketMode = "direct"
    /\ Init

NextProject ==
    \/ (SystemInitComplete /\ ~panelReady) \/ (MqttConnect /\ ~mqttReady)
    \/ MqttMessageRepublish("states")
    \/ \E EventStr \in AlarmStateEvents : PArmStatusChanged(ProjectedPartition, EventStr)

SpecProject == InitProject /\ [][NextProject]_vars

\* zones and outputs: the links come up and stay up, the panel reports zone,
\* output and system events and accepts every bypass and output command
NextEntities ==
    \/ (SystemInitComplete /\ ~panelReady) \/ (MqttConnect /\ ~mqttReady)
    \/ EntityEvents \/ EntityCommand({FALSE})
    \/ MqttMessageRepublish("states")

SpecEntities == InitArm /\ [][NextEntities]_vars

\* zone traffic alone: the links come up, the panel reports zone events and a
\* client may ask for the states again
NextZones ==
    \/ (SystemInitComplete /\ ~panelReady) \/ (MqttConnect /\ ~mqttReady)
    \/ (\E Id \in Zones, EventStr \in ZoneEvents : ZStatusChanged(Id, EventStr))
    \/ MqttMessageRepublish("states")

SpecZones == InitArm /\ [][NextZones]_vars

\* command faults: as the arming retry machine, with a panel that may reject
\* any device call, and no passage of time
NextFaults ==
    \/ (SystemInitComplete /\ ~panelReady) \/ (MqttConnect /\ ~mqttReady)
    \/ PartitionEvents(BOOLEAN) \/ ArmCommand(BOOLEAN)
    \/ EntityCommand(BOOLEAN) \/ Rejection

SpecFaults == InitArm /\ [][NextFaults]_vars

\* a panel reached over a direct socket, with the gate closed
InitDirect ==
    /\ socketMode = "direct"
    /\ InitGate

\* the gate under traffic: both links flap while the panel reports zone and
\* output events and clients send commands that need no retry
NextTraffic ==
    \/ LinkUp \/ LinkDown
    \/ (\E Id \in Zones, EventStr \in {"Open", "Closed"} : ZStatusChanged(Id, EventStr))
    \/ (\E Id \in Outputs, EventStr \in OutputEvents : OStatusChanged(Id, EventStr))
    \/ (\E partitionId \in Partitions, command \in {"disarmed", "armed_away"} :
            MqttMessagePartitionSet(partitionId, command, FALSE))
    \/ EntityCommand({FALSE})
    \/ MqttMessageRepublish("states")

SpecTraffic == InitDirect /\ [][NextTraffic]_vars

\* the control topics: the links come up and stay up, a client sends any
\* payload on <root>/republish and on the platform's status topic; partition
\* 1 is armed and disarmed, the zones open and close and the outputs switch
\* meanwhile, and time passes
ControlTopics ==
    {<<risco_mqtt_topic, "/", "republish">>, <<ha_discovery_prefix_topic, "/", "status">>}

NextControl ==
    \/ (SystemInitComplete /\ ~panelReady) \/ (MqttConnect /\ ~mqttReady)
    \/ (\E topic \in ControlTopics, message \in Messages :
            MqttMessage(topic, message, FALSE))
    \/ (\E i \in 1..MaxTimers : RepublishTimeout(i))
    \/ (\E EventStr \in {"Armed", "Disarmed"} : PArmStatusChanged(1, EventStr))
    \/ (\E Id \in Zones, EventStr \in {"Open", "Closed"} : ZStatusChanged(Id, EventStr))
    \/ (\E Id \in Outputs, EventStr \in {"Activated", "Deactivated"} :
            OStatusChanged(Id, EventStr))
    \/ LoopTimeout \/ Tick

SpecControl == InitDirect /\ [][NextControl]_vars

\* the outputs: both links flap, the panel reports every output event and a
\* client asks for a republish
NextOutputs ==
    \/ LinkUp \/ LinkDown
    \/ (\E Id \in Outputs, EventStr \in OutputEvents : OStatusChanged(Id, EventStr))
    \/ Republish

SpecOutputs == InitDirect /\ [][NextOutputs]_vars

\* commands against events: the links come up and stay up; clients send
\* commands on every command topic, ask for a state
\* republish and announce the platform online, while the panel reports
\* arming of partition 1 and zone and output events, and time passes
SetTopics ==
    {PartitionSetTopic(id) : id \in Partitions}
        \cup {ZoneBypassTopic(id) : id \in Zones}
        \cup {OutputTriggerTopic(id) : id \in Outputs}

CommandMessages == {"disarmed", "armed_away", "0", "1"}

NextCommands ==
    \/ (SystemInitComplete /\ ~panelReady) \/ (MqttConnect /\ ~mqttReady)
    \/ (\E topic \in SetTopics, message \in CommandMessages :
            MqttMessage(topic, message, FALSE))
    \/ MqttMessage(<<risco_mqtt_topic, "/", "republish">>, "states", FALSE)
    \/ MqttMessage(<<ha_discovery_prefix_topic, "/", "status">>, "online", FALSE)
    \/ (\E i \in 1..MaxTimers : RepublishTimeout(i))
    \/ (\E EventStr \in {"Armed", "Disarmed"} : PArmStatusChanged(1, EventStr))
    \/ (\E Id \in Zones, EventStr \in {"Bypassed", "UnBypassed"} :
            ZStatusChanged(Id, EventStr))
    \/ (\E Id \in Outputs, EventStr \in {"Activated", "Deactivated"} :
            OStatusChanged(Id, EventStr))
    \/ LoopTimeout \/ Tick

SpecCommands == InitDirect /\ [][NextCommands]_vars

\* disarming against the retry state: the links come up and stay up; clients
\* send 'disarmed' to every partition and arm commands to partition 1, the
\* panel reports readiness of partition 1, the arming timers run
NextDisarm ==
    \/ (SystemInitComplete /\ ~panelReady) \/ (MqttConnect /\ ~mqttReady)
    \/ (\E partitionId \in Partitions, rejects \in BOOLEAN :
            MqttMessagePartitionSet(partitionId, "disarmed", rejects))
    \/ (\E command \in {"armed_home", "armed_group_B"} :
            MqttMessagePartitionSet(1, command, FALSE))
    \/ (\E EventStr \in {"Ready", "NotReady"} : PStatusChanged(1, EventStr, FALSE))
    \/ (\E i \in 1..MaxPending : CallRejected(i))
    \/ ArmingTimers \/ LoopTimeout \/ Tick

SpecDisarm == InitArm /\ [][NextDisarm]_vars

\* panels whose existing partitions need not be 1..n: any subset of the
\* slots exists; both links flap, clients ask for discovery and states again,
\* and the existing partitions arm and disarm
InitSparse ==
    /\ partitions \in [Partitions -> {q \in PartitionSlots :
                                         /\ q.Ready /\ ~q.Alarm /\ ~q.Arm /\ ~q.HomeStay
                                         /\ ~q.GrpAArm /\ ~q.GrpBArm /\ ~q.GrpCArm
                                         /\ ~q.GrpDArm}]
    /\ socketMode = "direct"
    /\ arming_modes = ArmingModesDefault
    /\ Init

NextSparse ==
    \/ LinkUp \/ LinkDown
    \/ (\E payload \in {"states", "autodiscovery"} : MqttMessageRepublish(payload))
    \/ (\E Id \in Partitions, EventStr \in {"Armed", "Disarmed"} :
            partitions[Id].Exist /\ PArmStatusChanged(Id, EventStr))

SpecSparse == InitSparse /\ [][NextSparse]_vars

\* bypassing: both links flap; clients send every bypass payload to every
\* zone, the panel accepts or rejects the toggle and reports bypass and open
\* events of the zones
NextBypass ==
    \/ LinkUp \/ LinkDown
    \/ (\E zoneId \in Zones, payload \in BypassCommands, rejects \in BOOLEAN :
            MqttMessageZoneBypass(zoneId, payload, rejects))
    \/ (\E i \in 1..MaxPending : CallRejected(i))
    \/ (\E Id \in Zones, EventStr \in {"Bypassed", "UnBypassed", "Open", "Closed"} :
            ZStatusChanged(Id, EventStr))

SpecBypass == InitDirect /\ [][NextBypass]_vars

\* routing alone: the links come up and stay up, a client sends, on any topic,
\* one of six payloads that make every branch of the handler act, the zones
\* change their bypass state meanwhile
RoutedMessages == {"armed_away", "disarmed", "1", "states", "communications", "online"}

NextRouting ==
    \/ (SystemInitComplete /\ ~panelReady) \/ (MqttConnect /\ ~mqttReady)
    \/ (\E topic \in Topics, message \in RoutedMessages :
            MqttMessage(topic, message, FALSE))
    \/ (\E Id \in Zones, EventStr \in {"Bypassed", "UnBypassed"} :
            ZStatusChanged(Id, EventStr))

SpecRouting == InitDirect /\ [][NextRouting]_vars

NextGate ==
    \/ LinkUp \/ LinkDown \/ Errors \/ Heartbeat \/ Republish \/ Tick

SpecGate == InitGate /\ [][NextGate]_vars

(***************************************************************************)
(* Vocabulary of the properties.                                           *)
(***************************************************************************)
\* the device arm calls for partition P among the effects o, in call order
ArmCallsFor(o, P) ==
    SelectSeq(o, LAMBDA e : e[1] = "call" /\ e[2] \in ArmCalls /\ e[3] = P)

\* the device action an arm command asks for
RequestedCall(command) ==
    IF command = "armed_home" THEN "armHome"
    ELSE IF command = "armed_away" THEN "armAway"
    ELSE "armGroup"

\* this step delivers a Ready / NotReady event for partition P
ReadyEventFor(P) == listenerInstalled /\ ~partitions[P].Ready /\ partitions'[P].Ready

NotReadyEventFor(P) == listenerInstalled /\ partitions[P].Ready /\ ~partitions'[P].Ready

\* this step delivers the arm command to partition P
ArmCommandFor(P, command) ==
    \E rejects \in BOOLEAN : MqttMessagePartitionSet(P, command, rejects)

\* an arm request for partition P is outstanding (P is AwaitingReady)
Outstanding(P) == awaitPartitionReady /\ partitionDetailId = P

TimersOf(P) == {i \in 1..Len(partitionwait) : partitionwait[i].Id = P}

(***************************************************************************)
(* The arming retry state machine.                                         *)
(***************************************************************************)
\* C1: when a Ready event for partition P arrives while an arm request for P
\* is outstanding, exactly one device arm action has been issued for P since
\* the arm command was received, it is the action of the requested code, and
\* no request is outstanding afterwards.
C1_OneArmActionOnReady ==
    [][\A P \in Partitions :
          (Outstanding(P) /\ ReadyEventFor(P))
              => /\ reqCalls + Len(ArmCallsFor(out', P)) = 1
                 /\ Len(ArmCallsFor(out', P)) = 1
                 /\ ArmCallsFor(out', P)[1][2] = RequestedCall(reqCode)
                 /\ ~awaitPartitionReady']_vars

\* C2: an arm command for a partition that is not ready calls no device arm
\* action at command time; only the request (partition id and code) is
\* recorded as outstanding.
C2_NotReadyCommandIsDeferred ==
    [][\A P \in Partitions, command \in ArmCommands :
          (ArmCommandFor(P, command) /\ ~partitions[P].Ready)
              => /\ ArmCallsFor(out', P) = <<>>
                 /\ awaitPartitionReady'
                 /\ partitionDetailId' = P
                 /\ reqCode' = command]_vars

\* C3: an arm command for a partition whose Ready flag is true calls exactly
\* one device action, of the requested kind, at once, and creates no
\* outstanding request, also when no Ready or NotReady event has been
\* delivered for the partition yet.
C3_ReadyCommandBypasses ==
    [][\A P \in Partitions, command \in ArmCommands :
          (ArmCommandFor(P, command) /\ partitions[P].Ready)
              => /\ Len(ArmCallsFor(out', P)) = 1
                 /\ ArmCallsFor(out', P)[1][2] = RequestedCall(command)
                 /\ UNCHANGED <<awaitPartitionReady, partitionDetailId,
                                partitionDetailType>>]_vars

\* C4: an arm request is outstanding for at most 30 seconds from its arm
\* command: with no Ready event in that window it is discarded.
C4_RequestDiscardedAfterTimeout ==
    awaitPartitionReady => reqAge <= ArmingTimeoutMs

\* C5: at most one arming timer is alive per partition, and an arm command
\* received while a request is outstanding starts no timer and leaves the
\* running one as it is.
C5_OneTimerPerPartition ==
    /\ [](\A P \in Partitions : Cardinality(TimersOf(P)) <= 1)
    /\ [][\A P \in Partitions, command \in ArmCommands :
             (ArmCommandFor(P, command) /\ awaitPartitionReady)
                 => UNCHANGED <<partitionwait, armingTimer>>]_vars

\* C6: the Ready event that serves an outstanding request cancels the arming
\* timer: no arming timer is alive after it.
C6_TimerCancelledOnSuccess ==
    [][\A P \in Partitions :
          (awaitPartitionReady /\ ReadyEventFor(P)) => partitionwait' = <<>>]_vars

\* C7: a Ready event for partition Q neither serves nor clears the request
\* outstanding for another partition P, and an arm command for Q leaves P's
\* stored request in place.
C7_RequestsArePerPartition ==
    [][\A P \in Partitions : \A Q \in Partitions \ {P} :
          /\ (Outstanding(P) /\ ReadyEventFor(Q))
                 => /\ ArmCallsFor(out', P) = <<>>
                    /\ UNCHANGED <<awaitPartitionReady, partitionDetailId,
                                   partitionDetailType>>
          /\ \A command \in ArmCommands :
                 (Outstanding(P) /\ ArmCommandFor(Q, command))
                     => UNCHANGED <<awaitPartitionReady, partitionDetailId,
                                    partitionDetailType>>]_vars

(***************************************************************************)
(* The connection-readiness gate.                                          *)
(***************************************************************************)
DiscoveryTopics ==
    {"discovery/proxystatus", "discovery/panelstatus", "discovery/systemmessage",
     "discovery/systembattery", "discovery/repubish_state",
     "discovery/repubish_autodiscovery", "discovery/restart_communications",
     "discovery/alarm_control_panel", "discovery/partition-status",
     "discovery/switch-output", "discovery/button-output", "discovery/system-output",
     "discovery/zone", "discovery/zone-alarm", "discovery/zone-bypass",
     "discovery/zone-battery"}

CommandTopics ==
    {"alarm/partition/set", "alarm/zone-bypass/set", "alarm/output/trigger", "republish"}

EntityChangeEvents ==
    {"PStatusChanged", "ZStatusChanged", "OStatusChanged", "SStatusChanged", "Clock"}

IsDiscovery(e) == e[1] = "publish" /\ e[2] \in DiscoveryTopics

IsOnline(e) == e = <<"publish", "alarm/status", 0, "online">>

IsCommandSubscribe(e) == e[1] = "subscribe" /\ e[2] \in CommandTopics

IsEntityListener(e) == e[1] = "on" /\ e[2] \in EntityChangeEvents

Has(o, Test(_)) == \E i \in 1..Len(o) : Test(o[i])

\* every effect that passes Before precedes every effect that passes After
Precedes(o, Before(_), After(_)) ==
    \A i \in 1..Len(o), j \in 1..Len(o) : (Before(o[i]) /\ After(o[j])) => i < j

BothUp == panelReady /\ mqttReady

\* C8: however often the links go down and come up, discovery is published
\* by the gate and the command subscriptions and entity-change listeners are
\* installed only on the one step that turns initialized and listenerInstalled
\* from false to true, and neither flag ever goes back to false.
C8_InstalledOncePerLifetime ==
    [][/\ listenerInstalled => listenerInstalled'
       /\ initialized => initialized'
       /\ (Has(out', IsCommandSubscribe) \/ Has(out', IsEntityListener))
              => (~listenerInstalled /\ listenerInstalled')
       /\ (~BothUp /\ BothUp' /\ Has(out', IsDiscovery))
              => (~initialized /\ initialized')]_vars

\* both links are up again after the device link has been set up three times,
\* and this step installed nothing
C8_Witness ==
    /\ BothUp /\ listenerInstalled
    /\ Len(SelectSeq(disconnectedListeners, LAMBDA k : k = "init")) >= 3
    /\ Has(out, IsOnline)
    /\ ~Has(out, IsCommandSubscribe) /\ ~Has(out, IsEntityListener)

\* C9: the step that makes both links up for the first time, whichever link
\* comes up last, publishes the discovery descriptors, then 'online' (which
\* starts the heartbeat timer), then subscribes to the command topics and
\* installs the entity-change listeners; before it, none of this has happened.
C9_FirstBothUpFiresGate ==
    /\ [](~initialized =>
             /\ ~BothUp
             /\ ~Has(out, IsDiscovery) /\ ~Has(out, IsOnline)
             /\ ~Has(out, IsCommandSubscribe) /\ ~Has(out, IsEntityListener)
             /\ loop = NoTimer)
    /\ [][(~initialized /\ BothUp') =>
             /\ initialized' /\ listenerInstalled'
             /\ \A p \in Partitions :
                    /\ \E i \in 1..Len(out') :
                           out'[i] = <<"publish", "discovery/alarm_control_panel", p, "config">>
                    /\ \E i \in 1..Len(out') :
                           out'[i] = <<"subscribe", "alarm/partition/set", p, "">>
             /\ Has(out', IsOnline)
             /\ \A event \in EntityChangeEvents :
                    \E i \in 1..Len(out') : out'[i] = <<"on", event, 0, "">>
             /\ loop' = reconnectDelay(Cur)
             /\ Precedes(out', IsDiscovery, IsOnline)
             /\ Precedes(out', IsOnline, IsCommandSubscribe)
             /\ Precedes(out', IsOnline, IsEntityListener)]_vars

\* the gate has just fired for the first time
C9_Witness ==
    /\ BothUp /\ initialized
    /\ Has(out, IsDiscovery) /\ Has(out, IsOnline) /\ Has(out, IsCommandSubscribe)

\* C10: a step that makes both links up when they have been up before
\* publishes 'online' on the bridge status topic, no discovery descriptor, no
\* command-topic subscription and no entity-change listener.
C10_LaterBothUpOnlyOnline ==
    [][(~BothUp /\ BothUp' /\ initialized) =>
          /\ Has(out', IsOnline)
          /\ ~Has(out', IsDiscovery)
          /\ ~Has(out', IsCommandSubscribe)
          /\ ~Has(out', IsEntityListener)]_vars

\* both links are up again after a loss of the device link: the socket
\* listeners were registered again, nothing else
C10_Witness ==
    /\ BothUp /\ initialized
    /\ Has(out, IsOnline) /\ ~Has(out, IsDiscovery) /\ ~Has(out, IsCommandSubscribe)
    /\ Has(out, LAMBDA e : e = <<"on", "Disconnected", 0, "">>)

(***************************************************************************)
(* Loss of the device link and the heartbeat.                              *)
(***************************************************************************)
IsOffline(e) == e = <<"publish", "alarm/status", 0, "offline">>

IsBridgeStatus(e) == e[1] = "publish" /\ e[2] = "alarm/status"

HeartbeatWindow ==
    IF socketMode = "proxy" THEN ReconnectDelayProxy ELSE ReconnectDelayDirect

\* C12: every step that publishes 'online' leaves exactly one heartbeat timer
\* alive, due a full window (30 s direct, 60 s proxy) later: no heartbeat timer
\* is ever alive besides the one `loop` holds, the live timer is always due
\* one window after the last 'online', and it goes away only by firing at its
\* deadline, in a step that publishes 'offline' if and only if mqttReady.
C12_HeartbeatDeadMansSwitch ==
    /\ [](orphanLoops = <<>>)
    /\ [](loop /= NoTimer => onlineAge + loop = HeartbeatWindow)
    /\ [][Has(out', IsOnline) => loop' = HeartbeatWindow]_vars
    /\ [][(loop /= NoTimer /\ loop' = NoTimer) =>
              /\ loop = 0
              /\ Has(out', IsOffline) <=> mqttReady]_vars

\* the heartbeat timer has just fired with both links up: no 'online' came
\* for a whole window and 'offline' was published
C12_Witness ==
    /\ panelReady /\ mqttReady /\ initialized
    /\ loop = NoTimer
    /\ Has(out, IsOffline)

(***************************************************************************)
(* The state projection of a partition.                                    *)
(***************************************************************************)
CanonicalCodes ==
    {"armed_away", "armed_home", "armed_night", "armed_vacation", "armed_custom_bypass"}

\* the payloads published on partition p's alarm status topic in this step
AlarmStatusPayloads(o, p) ==
    {o[i][4] : i \in {j \in 1..Len(o) :
                         /\ o[j][1] = "publish"
                         /\ o[j][2] = "alarm/partition/status"
                         /\ o[j][3] = p}}

\* C13: once the mappings are built, alarmPayload of every partition is
\* 'triggered', 'disarmed' or one of the five canonical codes, whatever the
\* partition's flags and the arming-mode mapping, and no other payload (but
\* the transient 'arming') is published on a partition's alarm status topic.
C13_ProjectionIsTotal ==
    /\ initialized =>
           \A p \in Partitions :
               alarmPayload(Cur, p) \in {"triggered", "disarmed"} \cup CanonicalCodes
    /\ \A p \in Partitions :
           AlarmStatusPayloads(out, p)
               \subseteq {"triggered", "disarmed", "arming"} \cup CanonicalCodes

\* the reference projection: the native variants in order of precedence
NativeOrder ==
    <<"armed_away", "armed_home", "armed_group_A", "armed_group_B",
      "armed_group_C", "armed_group_D">>

NativeFlags == <<"Arm", "HomeStay", "GrpAArm", "GrpBArm", "GrpCArm", "GrpDArm">>

ActiveNatives(partition) == {i \in 1..6 : partition[NativeFlags[i]]}

Least(S) == CHOOSE i \in S : \A j \in S : i <= j

MatchingKeys(partition, modes) ==
    {k \in 1..5 : modes[ArmingKeys[k]] = NativeOrder[Least(ActiveNatives(partition))]}

\* defined where the claim defines it: alarm, disarmed, or a key matches
RefDefined(partition, modes) ==
    \/ partition.Alarm
    \/ ActiveNatives(partition) = {}
    \/ MatchingKeys(partition, modes) /= {}

RefPayload(partition, modes) ==
    IF partition.Alarm THEN "triggered"
    ELSE IF ActiveNatives(partition) = {} THEN "disarmed"
    ELSE ArmingKeys[Least(MatchingKeys(partition, modes))]

\* C14: wherever the reference projection is defined, alarmPayload of a
\* partition equals it ('triggered' if Alarm; else 'disarmed' if no arm flag;
\* else the first key, in the order away, home, night, vacation,
\* custom_bypass, mapped to the active native state of highest precedence),
\* and that is what a state publication puts on the alarm status topic.
C14_ProjectionMatchesReference ==
    initialized =>
        \A p \in Partitions :
            RefDefined(partitions[p], arming_modes) =>
                /\ alarmPayload(Cur, p) = RefPayload(partitions[p], arming_modes)
                /\ AlarmStatusPayloads(out, p) \ {"arming"}
                       \subseteq {RefPayload(partitions[p], arming_modes)}

\* a partition in home-stay with group A armed as well, under a mapping where
\* both armed_away and armed_home map to the native 'armed_home': the first
\* key, armed_away, was published
C14_Witness ==
    /\ arming_modes.armed_away = "armed_home" /\ arming_modes.armed_home = "armed_home"
    /\ partitions[1].HomeStay /\ partitions[1].GrpAArm
    /\ ~partitions[1].Arm /\ ~partitions[1].Alarm
    /\ AlarmStatusPayloads(out, 1) = {"armed_away"}

(***************************************************************************)
(* Outputs and zones.                                                      *)
(***************************************************************************)
\* this step delivers `payload` on the trigger topic of output o
OutputTriggerFor(o, payload) ==
    \E Status \in OutputStatusReads, rejects \in BOOLEAN :
        MqttMessageOutputTrigger(o, payload, Status, rejects)

ToggleCalls(o, id) ==
    SelectSeq(o, LAMBDA e : e[1] = "call" /\ e[2] = "toggleOutput" /\ e[3] = id)

\* C15: a message on the trigger topic of output o makes exactly one
\* toggleOutput(o) call if its payload differs from the projected state of o
\* ('1' when Active, '0' otherwise) and none if it is the same.
C15_OutputToggledOnlyOnChange ==
    [][\A o \in Outputs, payload \in OutputCommands :
          OutputTriggerFor(o, payload) =>
              Len(ToggleCalls(out', o)) =
                  IF payload /= (IF outputs[o].Active THEN "1" ELSE "0") THEN 1 ELSE 0]_vars

\* this step delivers a LowBattery event of zone z to zoneListener
LowBatteryEventFor(z) == listenerInstalled /\ ZStatusChanged(z, "LowBattery")

PublishesOn(o, name, id) ==
    SelectSeq(o, LAMBDA e : e[1] = "publish" /\ e[2] = name /\ e[3] = id)

\* C16 as stated: a LowBattery event of zone z publishes '1' on the battery
\* status topic of z and nothing on its open/closed status topic.
C16_LowBatteryLeavesStatusTopic ==
    [][\A z \in Zones :
          LowBatteryEventFor(z) =>
              /\ PublishesOn(out', "alarm/zone/battery/status", z)
                     = <<(<<"publish", "alarm/zone/battery/status", z, "1">>)>>
              /\ PublishesOn(out', "alarm/zone/status", z) = <<>>]_vars

\* C16 as amended: a LowBattery event of zone z publishes '1' on the battery
\* status topic of z and leaves the open/closed state of z as it is: with the
\* attribute blob it publishes once more, on the open/closed status topic,
\* the value the zone already has ('1' open, '0' closed).
C16_LowBatteryRepublishesStatus ==
    [][\A z \in Zones :
          LowBatteryEventFor(z) =>
              /\ zones'[z].Open = zones[z].Open
              /\ out' = << <<"publish", "alarm/zone", z, "json">>,
                           <<"publish", "alarm/zone/status", z,
                             IF zones[z].Open THEN "1" ELSE "0">>,
                           <<"publish", "alarm/zone/battery/status", z, "1">> >>]_vars

\* an open zone has just reported a low battery: its status topic got '1' again
C16_Witness ==
    /\ listenerInstalled
    /\ zones[1].Open /\ zones[1].LowBattery
    /\ out = << <<"publish", "alarm/zone", 1, "json">>,
                <<"publish", "alarm/zone/status", 1, "1">>,
                <<"publish", "alarm/zone/battery/status", 1, "1">> >>

(***************************************************************************)
(* Error classification and reconnection.                                  *)
(***************************************************************************)
\* C17: however the device link reconnects, at most one set of the low-level
\* handlers panelOrMqttConnected installs (tcpSocket 'Disconnected' and
\* 'SocketError', riscoComm 'PanelCommReady' and 'CommsError') is installed:
\* a set is torn down before it is attached again.
C17_SocketHandlersInstalledOnce == gateSets(Cur) <= 1

IsTransportCall(e) == e[1] = "call" /\ e[2] \in {"connect", "disconnect"}

\* C18: a socket error whose detail is EHOSTUNREACH or ECONNRESET leaves
\* panelReady false and reconnecting true, and makes no connect or disconnect
\* call on the device transport.
C18_UnreachableAndResetMarkLinkDown ==
    [][\A data \in {"EHOSTUNREACH", "ECONNRESET"} :
          ErrorEvent("SocketError", data) =>
              /\ ~panelReady'
              /\ reconnecting'
              /\ ~Has(out', IsTransportCall)]_vars

\* an error no branch of the classification recognises
Unrecognised(type, data) ==
    IF type = "CommsError"
    THEN data \notin {"New socket being connected", "Disconnected", "No reconnection"}
    ELSE data \notin {"EHOSTUNREACH", "Cloud socket Closed", "ECONNRESET"}

\* C19 as stated: an unrecognised error changes none of panelReady,
\* mqttReady, reconnecting, socketListeners, initialized, removes no listener
\* and publishes nothing.
C19_UnrecognisedErrorOnlyLogged ==
    [][\A type \in ErrorTypes, data \in ErrorData :
          (Unrecognised(type, data) /\ ErrorEvent(type, data)) =>
              /\ UNCHANGED <<panelReady, mqttReady, reconnecting, socketListeners,
                             initialized, disconnectedListeners>>
              /\ out' = <<>>]_vars

\* the link-health publication of the configured socket mode
LinkHealth(payload) ==
    <<"publish", IF socketMode = "proxy" THEN "alarm/proxystatus" ELSE "alarm/panelstatus",
      0, payload>>

\* C19 as amended: an unrecognised error changes none of panelReady,
\* mqttReady, reconnecting, socketListeners, initialized, removes no listener
\* and makes no device call; what it publishes is the link-health status and
\* nothing else: '1' if the detail contains 'Cloud', '0' otherwise.
C19_UnrecognisedErrorPublishesLinkHealth ==
    [][\A type \in ErrorTypes, data \in ErrorData :
          (Unrecognised(type, data) /\ ErrorEvent(type, data)) =>
              /\ UNCHANGED <<panelReady, mqttReady, reconnecting, socketListeners,
                             initialized, disconnectedListeners>>
              /\ out' /= <<>>
              /\ \A i \in 1..Len(out') :
                     out'[i] = LinkHealth(IF data \in {"Cloud", "Cloud socket Closed"}
                                          THEN "1" ELSE "0")]_vars

\* an unrecognised error has just been handled with both links up and the
\* heartbeat running: the link-health topic alone was published, with '0'
C19_Witness ==
    /\ panelReady /\ mqttReady /\ socketListeners /\ ~reconnecting
    /\ loop > 0
    /\ out = <<LinkHealth("0")>>

(***************************************************************************)
(* Command faults.                                                         *)
(***************************************************************************)
IsUnhandledRejection(e) == e[1] = "unhandledRejection"

\* C20: no rejection of a device action call, whether the call was made for
\* an inbound command or for the deferred retry on a Ready event, escapes as
\* an unhandled rejection.
C20_CommandFaultsHandledLocally == ~Has(out, IsUnhandledRejection)

(***************************************************************************)
(* The gate, in both directions.                                           *)
(***************************************************************************)
EntityStateTopics ==
    {"alarm/partition/status", "alarm/partition-status/status", "alarm/zone",
     "alarm/zone/status", "alarm/zone/battery", "alarm/zone/battery/status",
     "alarm/zone/alarm/status", "alarm/zone-bypass/status", "alarm/output/status",
     "alarm/systemmessage", "alarm/systembattery"}

IsEntityState(e) == e[1] = "publish" /\ e[2] \in EntityStateTopics

DeviceActions == ArmCalls \cup {"disarmPart", "toggleOutput", "toggleBypassZone"}

IsDeviceAction(e) == e[1] = "call" /\ e[2] \in DeviceActions

\* C21: as long as the two links have never been up together, no entity state
\* is published and no device action is called, whatever the panel reports and
\* whatever arrives on the bus; and a link-up handler (SystemInitComplete,
\* connect) publishes 'online' only if panelReady and mqttReady are both true
\* then: a bus connect with panelReady false publishes no 'online'.
C21_GateGatesBothDirections ==
    /\ [](~bothUpSeen => (~Has(out, IsEntityState) /\ ~Has(out, IsDeviceAction)))
    /\ [][((SystemInitComplete \/ MqttConnect) /\ Has(out', IsOnline))
              => (panelReady' /\ mqttReady')]_vars
    /\ [][(MqttConnect /\ ~panelReady) => ~Has(out', IsOnline)]_vars

\* the device link is up and the bus link has never been: the panel has
\* reported an open zone and an active output, and nothing was published
C21_Witness ==
    /\ ~bothUpSeen /\ panelReady /\ ~mqttReady
    /\ zones[1].Open /\ outputs[1].Active
    /\ out = <<>>

(***************************************************************************)
(* The transient 'arming' payload.                                         *)
(***************************************************************************)
\* C22: the step that receives an arm command for a partition that is not
\* ready, with no request outstanding, publishes 'arming' on that partition's
\* alarm status topic.
C22_ArmingPublishedAtCommand ==
    [][\A P \in Partitions, command \in ArmCommands :
          (ArmCommandFor(P, command) /\ ~partitions[P].Ready /\ ~awaitPartitionReady)
              => "arming" \in AlarmStatusPayloads(out', P)]_vars

\* C23: once 'arming' has been published for partition P and the retry has
\* timed out, the next NotReady event, the next Ready event and a state
\* republish each publish the alarm state of P (alarmPayload) on its alarm
\* status topic.
C23_StaleArmingCorrected ==
    [][\A P \in stale :
          (NotReadyEventFor(P) \/ ReadyEventFor(P) \/ MqttMessageRepublish("states"))
              => AlarmStatusPayloads(out', P) = {alarmPayload(Cur, P)}]_vars

(***************************************************************************)
(* Inbound routing.                                                        *)
(***************************************************************************)
\* the closure variables and the device's entities
programState ==
    <<panelReady, mqttReady, listenerInstalled, socketListeners, initialized,
      reconnecting, awaitPartitionReady, partitionDetailId, partitionDetailType,
      partitionReadyStatus, armingTimer, loop, partitionwait, alarmMapping,
      partitions, disconnectedListeners, pendingAway, zones, outputs, orphanLoops,
      republishTimers>>

CallsOf(o, methods, id) ==
    SelectSeq(o, LAMBDA e : e[1] = "call" /\ e[2] \in methods /\ e[3] = id)

\* this step delivers a message on `topic`
DeliveredOn(topic) == \E message \in RoutedMessages : MqttMessage(topic, message, FALSE)

\* C24: a message makes a device call for partition id only if its topic is
\* <root>/alarm/partition/<id>/set, a toggleBypassZone(id) call only if it is
\* <root>/alarm/zone/<id>-bypass/set and a toggleOutput(id) call only if it is
\* <root>/alarm/output/<id>/trigger; a message on another topic of the
\* namespace has no effect at all: no call, no publish, no error, no change
\* of state.
C24_InboundRouting ==
    [][/\ \A id \in Partitions :
              CallsOf(out', ArmCalls \cup {"disarmPart"}, id) /= <<>> =>
                  \A topic \in Topics \ {PartitionSetTopic(id)} : ~DeliveredOn(topic)
       /\ \A id \in Zones :
              CallsOf(out', {"toggleBypassZone"}, id) /= <<>> =>
                  \A topic \in Topics \ {ZoneBypassTopic(id)} : ~DeliveredOn(topic)
       /\ \A id \in Outputs :
              CallsOf(out', {"toggleOutput"}, id) /= <<>> =>
                  \A topic \in Topics \ {OutputTriggerTopic(id)} : ~DeliveredOn(topic)
       /\ (out' /= <<>> \/ ~UNCHANGED programState) =>
              \A topic \in OtherTopics : ~DeliveredOn(topic)]_vars

\* 'armed_away' has just been delivered on the set topic of the last partition
C24_Witness ==
    /\ listenerInstalled
    /\ out = <<(<<"call", "armAway", NumPartitions, "">>)>>

(***************************************************************************)
(* The control topics.                                                     *)
(***************************************************************************)
RepublishTopic == <<risco_mqtt_topic, "/", "republish">>

\* this step delivers `payload` on <root>/republish
RepublishDelivered(payload) == MqttMessage(RepublishTopic, payload, FALSE)

Published(o, name, id, payload) ==
    \E i \in 1..Len(o) : o[i] = <<"publish", name, id, payload>>

Bit(b) == IF b THEN "1" ELSE "0"

\* C25: on <root>/republish, 'states' publishes the current state of every
\* partition (alarm state and readiness), zone (open, bypass, battery, alarm)
\* and output, and no discovery descriptor; 'autodiscovery' publishes the
\* discovery descriptors of every partition, zone and output and nothing else;
\* 'communications' calls disconnect on the device transport, sets
\* reconnecting and publishes nothing; any other payload publishes nothing,
\* calls nothing and changes nothing.
C25_RepublishControl ==
    [][/\ RepublishDelivered("states") =>
              /\ \A p \in Partitions :
                     /\ Published(out', "alarm/partition/status", p, alarmPayload(Cur, p))
                     /\ Published(out', "alarm/partition-status/status", p,
                                  partitionStatus(partitions[p]))
              /\ \A z \in Zones :
                     /\ Published(out', "alarm/zone/status", z, Bit(zones[z].Open))
                     /\ Published(out', "alarm/zone-bypass/status", z, Bit(zones[z].Bypass))
                     /\ Published(out', "alarm/zone/battery/status", z,
                                  Bit(zones[z].LowBattery))
                     /\ Published(out', "alarm/zone/alarm/status", z,
                                  Bit(zones[z].Alarm /\ zones[z].Arm))
              /\ \A o \in Outputs :
                     Published(out', "alarm/output/status", o, Bit(outputs[o].Active))
              /\ ~Has(out', IsDiscovery) /\ ~Has(out', LAMBDA e : e[1] = "call")
       /\ RepublishDelivered("autodiscovery") =>
              /\ \A p \in Partitions :
                     Published(out', "discovery/alarm_control_panel", p, "config")
              /\ \A z \in Zones : Published(out', "discovery/zone", z, "config")
              /\ \A o \in Outputs :
                     \/ Published(out', "discovery/switch-output", o, "config")
                     \/ Published(out', "discovery/button-output", o, "config")
              /\ \A i \in 1..Len(out') : IsDiscovery(out'[i])
       /\ RepublishDelivered("communications") =>
              /\ out' = <<(<<"call", "disconnect", 0, "">>)>>
              /\ reconnecting'
       /\ \A payload \in Messages \ {"states", "autodiscovery", "communications"} :
              RepublishDelivered(payload) => (out' = <<>> /\ UNCHANGED programState)]_vars

\* the states have just been republished with partition 1 armed and zone 1 open
C25_Witness ==
    /\ partitions[1].Arm /\ zones[1].Open
    /\ Published(out, "alarm/partition/status", 1, "armed_away")
    /\ Published(out, "alarm/zone/status", 1, "1")
    /\ Published(out, "alarm/systemmessage", 0, "System initialized")
    /\ republishTimers = <<>>

HaStatusTopic == <<ha_discovery_prefix_topic, "/", "status">>

\* this step delivers 'online' on <discovery prefix>/status
HaOnlineDelivered == MqttMessage(HaStatusTopic, "online", FALSE)

\* C26: 'online' on <discovery prefix>/status makes the bridge publish the
\* discovery descriptors again, at once or when the timer that the message
\* starts fires.
C26_DiscoveryRepublishedOnHaOnline ==
    [][/\ HaOnlineDelivered => (Has(out', IsDiscovery) \/ republishTimers' /= republishTimers)
       /\ \A i \in 1..MaxTimers : RepublishTimeout(i) => Has(out', IsDiscovery)]_vars

(***************************************************************************)
(* Entity projections and frames.                                          *)
(***************************************************************************)
\* this step is the panel's event EventStr for output Id, heard by the bridge
OutputEventHeard(Id, EventStr) == listenerInstalled /\ OStatusChanged(Id, EventStr)

\* C27: an output event with an event string publishes '1' for 'Activated'
\* and 'Pulsed' and '0' for 'Deactivated', whatever the Active flag is, and
\* publishes nothing else; a state republish publishes '1' for an output iff
\* its Active flag is set.
C27_OutputStateProjection ==
    [][/\ \A Id \in Outputs, EventStr \in {"Activated", "Pulsed", "Deactivated"} :
              OutputEventHeard(Id, EventStr) =>
                  out' = <<(<<"publish", "alarm/output/status", Id,
                              IF EventStr = "Deactivated" THEN "0" ELSE "1">>)>>
       /\ RepublishDelivered("states") =>
              \A o \in Outputs :
                  /\ Published(out', "alarm/output/status", o, Bit(outputs[o].Active))
                  /\ ~Published(out', "alarm/output/status", o, Bit(~outputs[o].Active))]_vars

\* 'Pulsed' has just been published as '1' for an output whose flag is not set
C27_Witness ==
    /\ \E Id \in Outputs :
           /\ ~outputs[Id].Active
           /\ out = <<(<<"publish", "alarm/output/status", Id, "1">>)>>

\* this step is the panel's readiness event EventStr for partition Id, heard
\* by the bridge
ReadinessEventHeard(Id, EventStr) ==
    listenerInstalled /\ PStatusChanged(Id, EventStr, FALSE)

\* C28: a Ready or NotReady event publishes the readiness of the partition
\* ('0' when its Ready flag is set, '1' when it is not) on the readiness
\* topic and publishes nothing on the partition's alarm-state topic.
C28_ReadinessIndependentOfAlarmState ==
    [][\A Id \in Partitions, EventStr \in {"Ready", "NotReady"} :
           ReadinessEventHeard(Id, EventStr) =>
               /\ Published(out', "alarm/partition-status/status", Id,
                            IF partitions'[Id].Ready THEN "0" ELSE "1")
               /\ PublishesOn(out', "alarm/partition/status", Id) = <<>>]_vars

\* this step delivers a partition, bypass or output command
CommandDelivered ==
    \E topic \in SetTopics, message \in CommandMessages :
        MqttMessage(topic, message, FALSE)

\* this step is a status event of the panel
DeviceStatusEvent ==
    \/ \E Id \in Partitions, EventStr \in {"Ready", "NotReady"} :
           PStatusChanged(Id, EventStr, FALSE)
    \/ \E Id \in Partitions, EventStr \in AlarmStateEvents : PArmStatusChanged(Id, EventStr)
    \/ \E Id \in Zones, EventStr \in ZoneEvents : ZStatusChanged(Id, EventStr)
    \/ \E Id \in Outputs, EventStr \in OutputEvents : OStatusChanged(Id, EventStr)
    \/ \E EventStr \in SystemEvents : SStatusChanged(EventStr)

\* the handling of a command publishes no entity state and changes no flag
\* of a partition, zone or output
CommandFrame ==
    (Has(out', IsEntityState) \/ ~UNCHANGED <<partitions, zones, outputs>>)
        => ~CommandDelivered

\* C29: a command publishes no entity state and changes no entity flag, and
\* every step that publishes entity state is a status event of the panel or
\* the delivery of 'states' on <root>/republish.
C29_CommandsAssumeNothing ==
    [][/\ CommandFrame
       /\ Has(out', IsEntityState) =>
              (RepublishDelivered("states") \/ DeviceStatusEvent)]_vars

\* C29 amended: a command publishes no entity state and changes no entity
\* flag, and every step that publishes entity state is a status event of the
\* panel, the delivery of 'states' on <root>/republish, or the firing of the
\* timer that 'online' on the platform's status topic started.
C29_StateOnlyFromDeviceOrRepublish ==
    [][/\ CommandFrame
       /\ Has(out', IsEntityState) =>
              \/ RepublishDelivered("states")
              \/ \E i \in 1..MaxTimers : RepublishTimeout(i)
              \/ DeviceStatusEvent]_vars

\* a bypass command has just made its device call and the zone's flag is as
\* the panel last reported it
C29_Witness ==
    \E z \in Zones :
        /\ out = <<(<<"call", "toggleBypassZone", z, "">>)>>
        /\ ~zones[z].Bypass

\* C30: however many SystemInitComplete / 'Disconnected' cycles went before,
\* a 'Disconnected' event of the socket with the bus link up publishes
\* 'offline' on the bridge status topic exactly once.
C30_OneOfflinePerLinkDown ==
    [][(TcpDisconnected /\ mqttReady) => Len(SelectSeq(out', IsOffline)) = 1]_vars

(***************************************************************************)
(* The arm commands, case by case.                                         *)
(***************************************************************************)
\* the group number of the letter a group-arm command names
RequestedGroup(command) == groupLetterToNumber(lastChar(command))

\* C31: when a Ready event for partition P arrives while a request
\* armed_group_X for P is outstanding, the device call made is armGroup(P, g)
\* with g the group of the letter X of the request.
C31_DeferredGroupArmKeepsGroup ==
    [][\A P \in Partitions :
          (Outstanding(P) /\ ReadyEventFor(P) /\ includes(reqCode, "group"))
              => Has(out', LAMBDA e : e = <<"call", "armGroup", P, RequestedGroup(reqCode)>>)]_vars

\* every device arm call among the effects o is of the kind `command` asks for
OnlyKindOf(o, command) ==
    \A i \in 1..Len(o) :
        (o[i][1] = "call" /\ o[i][2] \in ArmCalls) => o[i][2] = RequestedCall(command)

\* C32: the device arm calls an arm command causes are of the requested kind:
\* at command time, when a rejected armAway of the command is delivered, and
\* when the Ready event serves the request the command left outstanding.
C32_OnlyRequestedKind ==
    [][/\ \A P \in Partitions, command \in ArmCommands :
              ArmCommandFor(P, command) => OnlyKindOf(out', command)
       /\ \A i \in 1..MaxPending, rejects \in BOOLEAN :
              (i <= Len(pendingAway) /\ ArmAwayRejected(i, rejects))
                  => OnlyKindOf(out', pendingAway[i].code)
       /\ \A P \in Partitions :
              (Outstanding(P) /\ ReadyEventFor(P)) => OnlyKindOf(out', reqCode)]_vars

\* C33: a step publishes 'arming' on the alarm status topic of partition P
\* only if an arm request for P is outstanding when the step is taken; a
\* NotReady event for a partition with no outstanding request does not.
C33_ArmingOnlyWhileOutstanding ==
    [][\A P \in Partitions :
          Published(out', "alarm/partition/status", P, "arming") => Outstanding(P)]_vars

\* this step delivers 'disarmed' on the set topic of partition P
DisarmCommandFor(P) ==
    \E rejects \in BOOLEAN : MqttMessagePartitionSet(P, "disarmed", rejects)

\* C34: a 'disarmed' command for partition P calls disarmPart(P) at once and
\* does nothing else, whatever the readiness of P, and leaves
\* awaitPartitionReady, the stored partition id and code, the timer flag and
\* the running arming timers as they are.
C34_DisarmLeavesRetryState ==
    [][\A P \in Partitions :
          DisarmCommandFor(P)
              => /\ out' = <<(<<"call", "disarmPart", P, "">>)>>
                 /\ UNCHANGED <<awaitPartitionReady, partitionDetailId,
                                partitionDetailType, armingTimer, partitionwait>>]_vars

\* partition 1 has just been disarmed while its arm request is outstanding
\* and the arming timer runs
C34_Witness ==
    /\ out = <<(<<"call", "disarmPart", 1, "">>)>>
    /\ Outstanding(1) /\ armingTimer /\ partitionwait /= <<>>
    /\ ~partitions[1].Ready

(***************************************************************************)
(* The mapping records of the partitions.                                  *)
(***************************************************************************)
\* alarmMapping.slice(Id - 1, Id)[0] exists and is keyed by the label of P
HasOwnRecord(P) ==
    P <= Len(alarmMapping) /\ alarmMapping[P].label = PartitionLabel(P)

\* C35: once discovery has been published, alarmMapping holds at index
\* P.Id - 1 the record keyed by the label of P, for every existing partition
\* P, whichever partitions exist and however often discovery was published;
\* and no handler throws the TypeError of a missing record.
C35_MappingRecordPerPartition ==
    /\ initialized => \A P \in Partitions : partitions[P].Exist => HasOwnRecord(P)
    /\ ~Has(out, LAMBDA e : e[1] = "throw" /\ e[2] = "TypeError")

(***************************************************************************)
(* Bypass commands.                                                        *)
(***************************************************************************)
\* this step delivers `payload` on the bypass topic of zone Z
BypassCommandFor(Z, payload) ==
    \E rejects \in BOOLEAN : MqttMessageZoneBypass(Z, payload, rejects)

\* the bypass value a payload asks for: on iff it parses to 1
RequestedBypass(payload) == payload = "1"

ToggleOf(Z) == <<(<<"call", "toggleBypassZone", Z, "">>)>>

\* a bypass command calls toggleBypassZone(Z) once, and does nothing else, if
\* the requested value differs from the Bypass flag of Z, and does nothing if
\* it is equal
BypassRule ==
    \A Z \in Zones, payload \in BypassCommands :
        BypassCommandFor(Z, payload)
            => out' = IF RequestedBypass(payload) /= zones[Z].Bypass
                      THEN ToggleOf(Z) ELSE <<>>

\* C36: the rule above, and hence a bypass command that repeats the one just
\* handled for Z (the last handler run made the toggle call for Z, no event
\* since) makes no further call.
C36_BypassToggleOnlyOnDifference ==
    [][/\ BypassRule
       /\ \A Z \in Zones, payload \in BypassCommands :
              (/\ out = ToggleOf(Z)
               /\ RequestedBypass(payload) /= zones[Z].Bypass
               /\ BypassCommandFor(Z, payload))
                  => out' = <<>>]_vars

\* the zones whose bypass command topic the effects o subscribe
BypassSubscribed(o) ==
    {z \in Zones : Has(o, LAMBDA e : e = <<"subscribe", "alarm/zone-bypass/set", z, "">>)}

\* the zones the effects o advertise with a bypass switch
BypassAdvertised(o) ==
    {z \in Zones : Has(o, LAMBDA e : e = <<"publish", "discovery/zone-bypass", z, "config">>)}

\* the zones the configuration exposes for bypass: the used zones, less the
\* entry/exit ones (type 3) when filter_bypass_zones is enabled
BypassExposed ==
    {z \in Zones : ~ZoneNotUsed(z) /\ (filter_bypass_zones = TRUE => ZoneType(z) /= 3)}

\* C37: the step that installs the command subscriptions subscribes the
\* bypass command topic of exactly the zones that discovery advertises with a
\* bypass switch, which are the zones the configuration exposes for bypass;
\* and a bypass command makes a device call only for such a zone.
C37_BypassExposureConsistent ==
    [][/\ (~listenerInstalled /\ listenerInstalled')
              => /\ BypassAdvertised(out') = BypassExposed
                 /\ BypassSubscribed(out') = BypassAdvertised(out')
       /\ \A Z \in Zones \ BypassExposed : CallsOf(out', {"toggleBypassZone"}, Z) = <<>>]_vars

(***************************************************************************)
(* The state republish that follows the platform's 'online'.               *)
(***************************************************************************)
\* the effects o hold exactly one publish on the topic `name` of entity id,
\* and it carries `payload`
PublishedOnce(o, name, id, payload) ==
    PublishesOn(o, name, id) = <<(<<"publish", name, id, payload>>)>>

\* the effects o are one publication of the state of every entity, as the
\* program state holds it
AllStatesOnce(o) ==
    /\ \A p \in Partitions :
           /\ PublishedOnce(o, "alarm/partition/status", p, alarmPayload(Cur, p))
           /\ PublishedOnce(o, "alarm/partition-status/status", p,
                            partitionStatus(partitions[p]))
    /\ \A z \in Zones :
           /\ PublishedOnce(o, "alarm/zone/status", z, Bit(zones[z].Open))
           /\ PublishedOnce(o, "alarm/zone-bypass/status", z, Bit(zones[z].Bypass))
           /\ PublishedOnce(o, "alarm/zone/battery/status", z, Bit(zones[z].LowBattery))
           /\ PublishedOnce(o, "alarm/zone/alarm/status", z,
                            Bit(zones[z].Alarm /\ zones[z].Arm))
    /\ \A x \in Outputs :
           PublishedOnce(o, "alarm/output/status", x, Bit(outputs[x].Active))

\* C38: 'online' on <discovery prefix>/status starts one timer of
\* ha_state_publishing_delay seconds and publishes nothing; any other payload
\* on that topic starts none and does nothing; a timer runs down with the
\* time that passes and with nothing else, fires when it is due (time does
\* not pass a due timer) and then publishes the current state of every
\* entity once and is gone.
C38_OneStateRepublishPerOnline ==
    /\ [](\A i \in 1..Len(republishTimers) : republishTimers[i] \in 0..RepublishingDelay)
    /\ [][/\ HaOnlineDelivered =>
                /\ republishTimers' = Append(republishTimers, RepublishingDelay)
                /\ out' = <<>>
          /\ \A message \in Messages \ {"online"} :
                 MqttMessage(HaStatusTopic, message, FALSE)
                     => (out' = <<>> /\ UNCHANGED programState)
          /\ \A i \in 1..MaxTimers :
                 RepublishTimeout(i) =>
                     /\ republishTimers[i] = 0
                     /\ republishTimers' =
                            SubSeq(republishTimers, 1, i - 1)
                                \o SubSeq(republishTimers, i + 1, Len(republishTimers))
                     /\ AllStatesOnce(out')
          /\ republishTimers' /= republishTimers =>
                 \/ HaOnlineDelivered
                 \/ \E i \in 1..MaxTimers : RepublishTimeout(i)
                 \/ /\ Tick
                    /\ republishTimers' =
                           [i \in 1..Len(republishTimers) |-> republishTimers[i] - Step]]_vars

\* the republish of a first 'online' is due while the timer of a second
\* 'online', just delivered, has its whole delay ahead
C38_Witness ==
    /\ Len(republishTimers) = 2
    /\ republishTimers[1] = 0
    /\ republishTimers[2] = RepublishingDelay
    /\ out = <<>>

====
